---- MODULE Spec2Model ----
(***************************************************************************)
(* CineSense: the hybrid recommender (backend/hybrid_recommender.py).      *)
(*                                                                         *)
(* Strings are sequences of one-character strings, so that lowercasing,    *)
(* trimming, the franchise-base cut, substring tests, word sets and the    *)
(* difflib similarity ratio are computed, not assumed.  Floating point     *)
(* scores are exact rationals [n |-> numerator, d |-> denominator > 0];    *)
(* the not-a-number value of an empty mean is the value NaN (d = 0).       *)
(***************************************************************************)
EXTENDS Integers, Sequences, FiniteSets, TLC

VARIABLES
    data,        \* self.data: the catalog table, one record per row
    embeddings,  \* self.embeddings: one vector per row, row-aligned with data
    title_map,   \* self.title_map: lowercased title -> row index
    normalizers, \* rating_max, pop_max, year_max, year_min
    engine,      \* "unbuilt", "ready" after __init__, or "failed" when it raised
    tieOrder,    \* how the build's sort_values orders rows of equal key
    call,        \* the sequential caller: its arguments, locals and return value
    thread,      \* the concurrent callers: position, arguments and locals of each
    request,     \* app.py: the /api/recommend request being handled and its response
    metadata_cache, \* app.py: the in-memory metadata cache, one entry per key
    posters,     \* app.py: the files of POSTER_CACHE, oldest first
    cache_lock,  \* app.py: "free" or the worker that holds cache_lock
    worker,      \* the concurrent calls of fetch_metadata: position and locals
    favorites,   \* routes/fav_routes.py: the documents of db.favorites, in insertion order
    reply        \* routes/fav_routes.py: the last favorites request and its response

vars == <<data, embeddings, title_map, normalizers, engine, tieOrder, call, thread,
          request, metadata_cache, posters, cache_lock, worker, favorites, reply>>

catalogVars == <<data, embeddings, title_map, normalizers>>

\* The state of the web application around the recommender
serverVars == <<request, metadata_cache, posters, cache_lock, worker, favorites, reply>>

\* The favorites store and its last request
favVars == <<favorites, reply>>

-----------------------------------------------------------------------------
(* Bounds of the model *)

MaxRows == 4

MaxTopN == 2

-----------------------------------------------------------------------------
(* Generic helpers *)

Min(a, b) == IF a <= b THEN a ELSE b

Max(a, b) == IF a >= b THEN a ELSE b

Abs(a) == IF a < 0 THEN -a ELSE a

RECURSIVE GCD(_, _)
GCD(a, b) == IF b = 0 THEN a ELSE GCD(b, a % b)

RECURSIVE SumSeq(_)
SumSeq(s) == IF s = <<>> THEN 0 ELSE Head(s) + SumSeq(Tail(s))

Range(s) == {s[i] : i \in DOMAIN s}

\* The elements of s at the positions test accepts, in order.
RECURSIVE SelectIdx(_, _)
SelectIdx(s, keep) ==
    IF s = <<>> THEN <<>>
    ELSE LET rest == SelectIdx(Tail(s), keep)
         IN  IF Head(s) \in keep THEN <<Head(s)>> \o rest ELSE rest

Prefix(s, n) == SubSeq(s, 1, Min(Max(n, 0), Len(s)))

-----------------------------------------------------------------------------
(* Rationals and NaN, standing for Python floats *)

NaN == [n |-> 0, d |-> 0]

IsNaN(x) == x.d = 0

Rat(n, d) ==
    LET g == GCD(Abs(n), Abs(d))
        s == IF d < 0 THEN -1 ELSE 1
    IN  [n |-> (s * n) \div g, d |-> (s * d) \div g]

RAdd(x, y) ==
    IF IsNaN(x) \/ IsNaN(y) THEN NaN
    ELSE Rat(x.n * y.d + y.n * x.d, x.d * y.d)

RMul(x, y) ==
    IF IsNaN(x) \/ IsNaN(y) THEN NaN
    ELSE Rat(x.n * y.n, x.d * y.d)

\* x < y; every comparison with NaN is false
RLess(x, y) ==
    /\ ~IsNaN(x)
    /\ ~IsNaN(y)
    /\ x.n * y.d < y.n * x.d

RInt(k) == [n |-> k, d |-> 1]

-----------------------------------------------------------------------------
(* Strings *)

SPACE == " "

LowerChar(c) ==
    CASE c = "A" -> "a"
      [] c = "B" -> "b"
      [] c = "C" -> "c"
      [] c = "R" -> "r"
      [] c = "X" -> "x"
      [] c = "Y" -> "y"
      [] OTHER -> c

\* str.lower()
Lower(s) == [i \in 1..Len(s) |-> LowerChar(s[i])]

\* str.strip(): leading and trailing whitespace removed
Strip(s) ==
    LET ns == {i \in 1..Len(s) : s[i] # SPACE}
    IN  IF ns = {} THEN <<>>
        ELSE LET lo == CHOOSE i \in ns : \A j \in ns : i <= j
                 hi == CHOOSE i \in ns : \A j \in ns : i >= j
             IN  SubSeq(s, lo, hi)

\* a in b, for strings
IsSubstring(a, b) ==
    \E i \in 1..(Len(b) - Len(a) + 1) : SubSeq(b, i, i + Len(a) - 1) = a

\* set(s.split()): the maximal runs of non-whitespace characters
Words(s) ==
    {SubSeq(s, q[1], q[2]) : q \in
        {p \in (1..Len(s)) \X (1..Len(s)) :
            /\ p[1] <= p[2]
            /\ \A k \in p[1]..p[2] : s[k] # SPACE
            /\ (p[1] = 1 \/ s[p[1] - 1] = SPACE)
            /\ (p[2] = Len(s) \/ s[p[2] + 1] = SPACE)}}

\* Code points of the characters used, for Python's string ordering
Ord(c) ==
    CASE c = " " -> 32
      [] c = "(" -> 40
      [] c = "-" -> 45
      [] c = ":" -> 58
      [] c = "A" -> 65
      [] c = "B" -> 66
      [] c = "C" -> 67
      [] c = "R" -> 82
      [] c = "X" -> 88
      [] c = "Y" -> 89
      [] c = "a" -> 97
      [] c = "b" -> 98
      [] c = "c" -> 99
      [] c = "e" -> 101
      [] c = "i" -> 105
      [] c = "m" -> 109
      [] c = "n" -> 110
      [] c = "o" -> 111
      [] c = "r" -> 114
      [] c = "s" -> 115
      [] c = "v" -> 118
      [] c = "x" -> 120
      [] c = "y" -> 121
      [] c = "z" -> 122
      [] OTHER -> 8211

\* a < b in Python's string order
RECURSIVE StrLess(_, _)
StrLess(a, b) ==
    IF b = <<>> THEN FALSE
    ELSE IF a = <<>> THEN TRUE
    ELSE IF Head(a) # Head(b) THEN Ord(Head(a)) < Ord(Head(b))
    ELSE StrLess(Tail(a), Tail(b))

-----------------------------------------------------------------------------
(* difflib.get_close_matches, as find_title_index calls it *)

\* Length of the common run of a from i and b from j, inside a[..ahi], b[..bhi]
RECURSIVE RunLen(_, _, _, _, _, _)
RunLen(a, b, i, j, ahi, bhi) ==
    IF i > ahi \/ j > bhi THEN 0
    ELSE IF a[i] # b[j] THEN 0
    ELSE 1 + RunLen(a, b, i + 1, j + 1, ahi, bhi)

\* SequenceMatcher.find_longest_match: the longest block, of those the one
\* starting earliest in a, of those the one starting earliest in b.
LongestMatch(a, b, alo, ahi, blo, bhi) ==
    LET blocks == {[i |-> p[1], j |-> p[2], k |-> RunLen(a, b, p[1], p[2], ahi, bhi)] :
                        p \in (alo..ahi) \X (blo..bhi)}
        Better(x, y) == \/ x.k > y.k
                        \/ x.k = y.k /\ x.i < y.i
                        \/ x.k = y.k /\ x.i = y.i /\ x.j <= y.j
    IN  IF blocks = {} THEN [i |-> alo, j |-> blo, k |-> 0]
        ELSE CHOOSE x \in blocks : \A y \in blocks : Better(x, y)

\* Sum of the sizes of SequenceMatcher.get_matching_blocks
RECURSIVE MatchCount(_, _, _, _, _, _)
MatchCount(a, b, alo, ahi, blo, bhi) ==
    LET m == LongestMatch(a, b, alo, ahi, blo, bhi)
    IN  IF m.k = 0 THEN 0
        ELSE m.k + MatchCount(a, b, alo, m.i - 1, blo, m.j - 1)
                 + MatchCount(a, b, m.i + m.k, ahi, m.j + m.k, bhi)

\* SequenceMatcher(None, a, b).ratio() = 2.0 * matches / (len(a) + len(b))
Ratio(a, b) ==
    IF Len(a) + Len(b) = 0 THEN RInt(1)
    ELSE Rat(2 * MatchCount(a, b, 1, Len(a), 1, Len(b)), Len(a) + Len(b))

\* cutoff=0.6
Cutoff == Rat(6, 10)

\* The variant with the smallest (ratio, string) pair first
GetCloseMatchesSmallest(word, possibilities) ==
    LET close == {x \in possibilities : ~RLess(Ratio(x, word), Cutoff)}
        Smaller(x, y) == \/ RLess(Ratio(x, word), Ratio(y, word))
                         \/ Ratio(x, word) = Ratio(y, word) /\ ~StrLess(y, x)
    IN  IF close = {} THEN <<>>
        ELSE <<CHOOSE x \in close : \A y \in close : Smaller(x, y)>>

\* get_close_matches(word, possibilities, n=1, cutoff=0.6): the possibilities
\* scoring at least the cutoff, the largest (ratio, string) pair first.
GetCloseMatches(word, possibilities) ==
    LET close == {x \in possibilities : ~RLess(Ratio(x, word), Cutoff)}
        Larger(x, y) == \/ RLess(Ratio(y, word), Ratio(x, word))
                        \/ Ratio(x, word) = Ratio(y, word) /\ ~StrLess(x, y)
    IN  IF close = {} THEN <<>>
        ELSE <<CHOOSE x \in close : \A y \in close : Larger(x, y)>>

-----------------------------------------------------------------------------
(* Franchise bases *)

\* ENDASH stands for the character U+2013
ENDASH == "endash"

Delimiters == {":", "-", ENDASH, "("}

\* re.sub(r"[:\-<U+2013>(].*", "", s): everything from the first delimiter on is
\* removed (the titles of the model hold no line break).
CutAtDelimiter(s) ==
    LET ds == {i \in 1..Len(s) : s[i] \in Delimiters}
    IN  IF ds = {} THEN s
        ELSE SubSeq(s, 1, (CHOOSE i \in ds : \A j \in ds : i <= j) - 1)

FranchiseBase(t) == Strip(CutAtDelimiter(Lower(t)))

\* The variant without the test for an empty base
IsSameFranchiseUnguarded(a, b) ==
    LET a_base == FranchiseBase(a)
        b_base == FranchiseBase(b)
        wa == Words(a_base)
        wb == Words(b_base)
    IN  IF IsSubstring(a_base, b_base) \/ IsSubstring(b_base, a_base) THEN TRUE
        ELSE 10 * Cardinality(wa \cap wb) >= 6 * Max(1, Cardinality(wa \cup wb))

\* HybridRecommender._is_same_franchise
IsSameFranchise(a, b) ==
    LET a_base == FranchiseBase(a)
        b_base == FranchiseBase(b)
        wa == Words(a_base)
        wb == Words(b_base)
    IN  IF a_base = <<>> \/ b_base = <<>> THEN FALSE
        ELSE IF IsSubstring(a_base, b_base) \/ IsSubstring(b_base, a_base) THEN TRUE
        ELSE 10 * Cardinality(wa \cap wb) >= 6 * Max(1, Cardinality(wa \cup wb))

-----------------------------------------------------------------------------
(* The catalog: rows the dataset may hold, after the clean-up of __init__ *)

MOVIE == <<"m", "o", "v", "i", "e">>

ANIME == <<"a", "n", "i", "m", "e">>

RowPool ==
    << [title |-> <<"A">>, type |-> MOVIE, cluster |-> 1,
        rating |-> 8, popularity |-> 2, year |-> 2010, emb |-> <<1, 0>>],
       [title |-> <<"A", ":", " ", "R">>, type |-> MOVIE, cluster |-> 1,
        rating |-> 4, popularity |-> 1, year |-> 2020, emb |-> <<4, 3>>],
       [title |-> <<"C">>, type |-> MOVIE, cluster |-> 1,
        rating |-> 0, popularity |-> 0, year |-> 0, emb |-> <<3, 4>>],
       [title |-> <<"a">>, type |-> ANIME, cluster |-> 2,
        rating |-> 0, popularity |-> 0, year |-> 2010, emb |-> <<0, 1>>],
       [title |-> <<"x", " ", "y">>, type |-> MOVIE, cluster |-> 1,
        rating |-> 8, popularity |-> 1, year |-> 2020, emb |-> <<4, 3>>],
       [title |-> <<"x">>, type |-> MOVIE, cluster |-> 1,
        rating |-> 4, popularity |-> 0, year |-> 2010, emb |-> <<3, 4>>],
       [title |-> <<"y">>, type |-> MOVIE, cluster |-> 1,
        rating |-> 0, popularity |-> 2, year |-> 0, emb |-> <<0, 1>>],
       [title |-> <<"y", " ", "x">>, type |-> MOVIE, cluster |-> 2,
        rating |-> 4, popularity |-> 1, year |-> 2010, emb |-> <<1, 0>> ] >>

\* The catalogs of the model: the rows of RowPool at 1 to MaxRows positions,
\* in the pool's order.
Catalogs ==
    {SelectIdx(RowPool, {RowPool[i] : i \in S}) :
        S \in {T \in SUBSET (1..Len(RowPool)) :
                  Cardinality(T) >= 1 /\ Cardinality(T) <= MaxRows}}

\* self.title_map = {t.lower(): i for i, t in enumerate(titles)}: of the rows
\* with one lowercased title the last one wins.
TitleMapOf(d) ==
    [k \in {Lower(d[i].title) : i \in DOMAIN d} |->
        CHOOSE i \in DOMAIN d :
            /\ Lower(d[i].title) = k
            /\ \A j \in DOMAIN d : Lower(d[j].title) = k => j <= i]

SetMax(S) == CHOOSE x \in S : \A y \in S : y <= x

SetMin(S) == CHOOSE x \in S : \A y \in S : y >= x

\* HybridRecommender._compute_normalizers
ComputeNormalizers(d) ==
    LET years == {d[i].year : i \in DOMAIN d}
        ymax  == IF SetMax(years) > 0 THEN SetMax(years) ELSE 2025
        ymin  == IF \E y \in years : y > 0
                 THEN SetMin({y \in years : y > 0}) ELSE ymax
    IN  [rating_max |-> Max(SetMax({d[i].rating : i \in DOMAIN d}), 1),
         pop_max    |-> Max(SetMax({d[i].popularity : i \in DOMAIN d}), 1),
         year_max   |-> ymax,
         year_min   |-> ymin]

-----------------------------------------------------------------------------
(* Arguments of recommend *)

\* query_title
Queries ==
    { <<" ", "A">>, <<"x", " ", "y">>, <<"x", "y">>, <<"a", ":">>, <<"z", "z">> }

\* content_type; <<>> stands for None and for "", both false in
\* (content_type or query_type)
ContentTypes == { <<>>, MOVIE, <<"A", "n", "i", "m", "e", " ">> }

TopNs == 0..MaxTopN

\* sort_mode; "none" stands for None
SortModes == {"none", "latest", "top_rated"}

\* the default of recommend
DefaultWeights ==
    [sim |-> Rat(50, 100), rating |-> Rat(25, 100),
     pop |-> Rat(15, 100), recency |-> Rat(10, 100)]

\* a caller's override with a smaller similarity weight
LowSimWeights == [DefaultWeights EXCEPT !.sim = Rat(10, 100)]

WeightSets == {DefaultWeights, LowSimWeights}

\* how sort_values orders rows of equal key: numpy's default sort is not a
\* stable one, the order depends on the build
TieOrders == {"index", "reverse"}

-----------------------------------------------------------------------------
(* HybridRecommender: the steps of recommend, in the order of the code *)

\* find_title_index returns None
None == 0

\* HybridRecommender.find_title_index; rows are numbered from 1
FindTitleIndex(query_title) ==
    LET q == Lower(Strip(query_title))
    IN  IF q \in DOMAIN title_map THEN title_map[q]
        ELSE LET candidates == GetCloseMatches(q, DOMAIN title_map)
             IN  IF candidates # <<>> THEN title_map[candidates[1]] ELSE None

\* desired_type = (content_type or query_type).lower().strip()
DesiredType(idx, content_type) ==
    Strip(Lower(IF content_type # <<>> THEN content_type ELSE data[idx].type))

\* self.data[mask]: the rows of data at which the mask holds, in row order
RowsWhere(mask) == SelectIdx([i \in DOMAIN data |-> i], mask)

\* The variant without the type-only pool: same cluster and type, else the
\* whole table
SelectPeersClusterOnly(idx, content_type) ==
    LET desired_type == DesiredType(idx, content_type)
        cluster_id   == data[idx].cluster
        in_cluster == {i \in DOMAIN data : /\ data[i].cluster = cluster_id
                                           /\ data[i].type = desired_type}
        tier1 == RowsWhere(in_cluster)
    IN  IF tier1 # <<>> THEN [tier |-> 1, peers |-> tier1]
        ELSE [tier |-> 3, peers |-> RowsWhere(DOMAIN data)]

\* cluster_peers as selected: same cluster and type, else the type in any
\* cluster, else the whole table
SelectPeers(idx, content_type) ==
    LET desired_type == DesiredType(idx, content_type)
        cluster_id   == data[idx].cluster
        in_cluster == {i \in DOMAIN data : /\ data[i].cluster = cluster_id
                                           /\ data[i].type = desired_type}
        of_type    == {i \in DOMAIN data : data[i].type = desired_type}
        tier1 == RowsWhere(in_cluster)
        tier2 == RowsWhere(of_type)
    IN  IF tier1 # <<>> THEN [tier |-> 1, peers |-> tier1]
        ELSE IF tier2 # <<>> THEN [tier |-> 2, peers |-> tier2]
        ELSE [tier |-> 3, peers |-> RowsWhere(DOMAIN data)]

Dot(u, v) == SumSeq([k \in DOMAIN u |-> u[k] * v[k]])

\* The Euclidean norm; the vectors of the model have whole norms
Norm(u) == CHOOSE k \in 0..Dot(u, u) : k * k = Dot(u, u)

\* sklearn cosine_similarity of two vectors (a zero vector is left unscaled)
CosineSimilarity(u, v) ==
    Rat(Dot(u, v), Max(Norm(u), 1) * Max(Norm(v), 1))

NormalizeRating(r) == RMul(r, Rat(1, normalizers.rating_max))

NormalizePop(p) == RMul(p, Rat(1, normalizers.pop_max))

\* The variant without the test for an unknown year
RecencyScoreUnguarded(y) ==
    IF normalizers.year_max = normalizers.year_min THEN Rat(1, 2)
    ELSE Rat(y - normalizers.year_min, normalizers.year_max - normalizers.year_min)

\* HybridRecommender._recency_score
RecencyScore(y) ==
    IF y <= 0 THEN RInt(0)
    ELSE IF normalizers.year_max = normalizers.year_min THEN Rat(1, 2)
    ELSE Rat(y - normalizers.year_min, normalizers.year_max - normalizers.year_min)

\* Series.mean(): NaN for no values
Mean(values) ==
    IF values = <<>> THEN NaN ELSE Rat(SumSeq(values), Len(values))

\* x or y for floats: NaN is true, 0.0 is false
FloatOr(x, y) == IF ~IsNaN(x) /\ x.n = 0 THEN y ELSE x

\* mean_r of the rows with rating > 0, or the mean rating of the table
MeanRating(peers) ==
    LET rated == SelectIdx(peers, {i \in Range(peers) : ~(data[i].rating <= 0)})
    IN  FloatOr(Mean([k \in DOMAIN rated |-> data[rated[k]].rating]),
                Mean([i \in DOMAIN data |-> data[i].rating]))

\* The variant with the weights of similarity and rating exchanged
FinalScoreSwapped(weights, similarity, rating_norm, pop_norm, recency_norm) ==
    RAdd(RAdd(RAdd(RMul(weights.rating, similarity),
                   RMul(weights.sim, rating_norm)),
              RMul(weights.pop, pop_norm)),
         RMul(weights.recency, recency_norm))

FinalScore(weights, similarity, rating_norm, pop_norm, recency_norm) ==
    RAdd(RAdd(RAdd(RMul(weights.sim, similarity),
                   RMul(weights.rating, rating_norm)),
              RMul(weights.pop, pop_norm)),
         RMul(weights.recency, recency_norm))

\* cluster_peers with the similarity, the normalized features and final_score
ScorePeers(idx, peers, weights) ==
    LET zero_any == \E i \in Range(peers) : data[i].rating <= 0
        Row(i) ==
            LET similarity   == CosineSimilarity(embeddings[idx], embeddings[i])
                rating_norm  == IF zero_any /\ data[i].rating <= 0
                                THEN NormalizeRating(MeanRating(peers))
                                ELSE NormalizeRating(RInt(data[i].rating))
                pop_norm     == NormalizePop(RInt(data[i].popularity))
                recency_norm == RecencyScore(data[i].year)
            IN  [idx |-> i, title |-> data[i].title, type |-> data[i].type,
                 cluster |-> data[i].cluster, rating |-> data[i].rating,
                 popularity |-> data[i].popularity, year |-> data[i].year,
                 similarity |-> similarity, rating_norm |-> rating_norm,
                 pop_norm |-> pop_norm, recency_norm |-> recency_norm,
                 final_score |-> FinalScore(weights, similarity, rating_norm,
                                            pop_norm, recency_norm)]
    IN  [k \in DOMAIN peers |-> Row(peers[k])]

\* The variant that removes the query row by its index
RemoveSelfByIndex(idx, rows) ==
    SelectIdx(rows, {r \in Range(rows) : r.idx # idx})

\* The variant that removes the whole franchise of the query row
RemoveSelfFranchise(idx, rows) ==
    SelectIdx(rows, {r \in Range(rows) :
                        /\ Lower(r.title) # Lower(data[idx].title)
                        /\ ~IsSameFranchise(r.title, data[idx].title)})

\* Remove self: the rows whose lowercased title is not the query row's
RemoveSelf(idx, rows) ==
    SelectIdx(rows, {r \in Range(rows) : Lower(r.title) # Lower(data[idx].title)})

\* DataFrame.sort_values(by, ascending): NaN keys last in row order, rows of
\* equal key in the order of the build's sort
SortValues(rows, by, ascending) ==
    LET n == Len(rows)
        Precedes(p, q) ==
            LET kp == by[p]
                kq == by[q]
            IN  IF IsNaN(kp) \/ IsNaN(kq)
                THEN IF IsNaN(kp) /\ IsNaN(kq) THEN p < q ELSE IsNaN(kq)
                ELSE IF kp = kq
                THEN IF tieOrder = "index" THEN p < q ELSE q < p
                ELSE IF ascending THEN RLess(kp, kq) ELSE RLess(kq, kp)
    IN  [k \in 1..n |->
            rows[CHOOSE p \in 1..n :
                    Cardinality({q \in (1..n) \ {p} : Precedes(q, p)}) = k - 1]]

\* The variant that orders by final_score whatever the sort mode
SortPeersByScore(rows, sort_mode) ==
    SortValues(rows, [k \in DOMAIN rows |-> rows[k].final_score], FALSE)

\* Optional sort modes
SortPeers(rows, sort_mode) ==
    LET ByYear   == [k \in DOMAIN rows |-> RInt(rows[k].year)]
        ByPop    == [k \in DOMAIN rows |-> RInt(rows[k].popularity)]
        ByRating == [k \in DOMAIN rows |-> RInt(rows[k].rating)]
        ByScore  == [k \in DOMAIN rows |-> rows[k].final_score]
    IN  IF sort_mode = "latest" THEN SortValues(rows, ByYear, FALSE)
        ELSE IF sort_mode = "oldest" THEN SortValues(rows, ByYear, TRUE)
        ELSE IF sort_mode = "popular" THEN SortValues(rows, ByPop, FALSE)
        ELSE IF sort_mode = "top_rated" THEN SortValues(rows, ByRating, FALSE)
        ELSE SortValues(rows, ByScore, FALSE)

\* The variant that compares a row with the row before it only
RECURSIVE DedupLoopAdjacent(_, _, _, _)
DedupLoopAdjacent(rows, seen, filtered, top_n) ==
    IF rows = <<>> THEN filtered
    ELSE LET r    == Head(rows)
             base == FranchiseBase(r.title)
         IN  IF \E k \in DOMAIN seen : IsSameFranchise(base, seen[k])
             THEN DedupLoopAdjacent(Tail(rows), <<base>>, filtered, top_n)
             ELSE IF Len(filtered) + 1 >= top_n * 3
             THEN Append(filtered, r)
             ELSE DedupLoopAdjacent(Tail(rows), <<base>>, Append(filtered, r), top_n)

\* The variant that stops at top_n / 3 kept rows
RECURSIVE DedupLoopEarlyBreak(_, _, _, _)
DedupLoopEarlyBreak(rows, seen, filtered, top_n) ==
    IF rows = <<>> THEN filtered
    ELSE LET r    == Head(rows)
             base == FranchiseBase(r.title)
         IN  IF \E k \in DOMAIN seen : IsSameFranchise(base, seen[k])
             THEN DedupLoopEarlyBreak(Tail(rows), seen, filtered, top_n)
             ELSE IF (Len(filtered) + 1) * 3 >= top_n
             THEN Append(filtered, r)
             ELSE DedupLoopEarlyBreak(Tail(rows), Append(seen, base),
                                      Append(filtered, r), top_n)

\* The loop over cluster_peers.iterrows()
RECURSIVE DedupLoop(_, _, _, _)
DedupLoop(rows, seen, filtered, top_n) ==
    IF rows = <<>> THEN filtered
    ELSE LET r    == Head(rows)
             base == FranchiseBase(r.title)
         IN  IF \E k \in DOMAIN seen : IsSameFranchise(base, seen[k])
             THEN DedupLoop(Tail(rows), seen, filtered, top_n)
             ELSE IF Len(filtered) + 1 >= top_n * 3
             THEN Append(filtered, r)
             ELSE DedupLoop(Tail(rows), Append(seen, base), Append(filtered, r), top_n)

\* Deduplicate franchises: filtered
DedupFilter(rows, top_n) == DedupLoop(rows, <<>>, <<>>, top_n)

\* DataFrame.head(n): the first n rows, for n < 0 all but the last -n
HeadRows(rows, n) ==
    IF n >= 0 THEN Prefix(rows, n) ELSE Prefix(rows, Len(rows) + n)

\* The columns of the frame recommend returns
ResultRow(r) ==
    [title |-> r.title, rating |-> r.rating, year |-> r.year,
     similarity |-> r.similarity, final_score |-> r.final_score,
     type |-> r.type, cluster |-> r.cluster]

\* The rows recommend keeps: head(top_n) of the sorted frame when the loop
\* kept nothing, else head(top_n) of the kept rows
Deduplicate(rows, top_n) ==
    LET filtered == DedupFilter(rows, top_n)
    IN  IF filtered = <<>> THEN HeadRows(rows, top_n)
        ELSE HeadRows(filtered, top_n)

\* The frame recommend returns
ReturnValue(rows, top_n) ==
    LET kept == Deduplicate(rows, top_n)
    IN  [k \in DOMAIN kept |-> ResultRow(kept[k])]

-----------------------------------------------------------------------------
(* One call of recommend, start to return *)

\* A caller that is not inside recommend
IdleCall ==
    [pc |-> "idle", query_title |-> <<>>, content_type |-> <<>>, top_n |-> 0,
     sort_mode |-> "none", weights |-> DefaultWeights, idx |-> None,
     tier |-> 0, peers |-> <<>>, rows |-> <<>>,
     ret |-> [none |-> FALSE, rows |-> <<>>]]

\* The locals and the return value of recommend(query_title, content_type,
\* top_n, sort_mode, weights) on the loaded catalog
RecommendRun(query_title, content_type, top_n, sort_mode, weights) ==
    LET idx      == FindTitleIndex(query_title)
        args     == [IdleCall EXCEPT !.pc = "done", !.query_title = query_title,
                        !.content_type = content_type, !.top_n = top_n,
                        !.sort_mode = sort_mode, !.weights = weights]
    IN  IF idx = None
        THEN [args EXCEPT !.ret = [none |-> TRUE, rows |-> <<>>]]
        ELSE LET sel      == SelectPeers(idx, content_type)
                 scored   == ScorePeers(idx, sel.peers, weights)
                 others   == RemoveSelf(idx, scored)
                 sorted   == SortPeers(others, sort_mode)
             IN  [args EXCEPT !.idx = idx, !.tier = sel.tier, !.peers = sel.peers,
                              !.rows = sorted,
                              !.ret = [none |-> FALSE,
                                       rows |-> ReturnValue(sorted, top_n)]]

\* HybridRecommender.recommend, the whole call
Recommend ==
    /\ call.pc = "idle"
    /\ \E query_title \in Queries, content_type \in ContentTypes, top_n \in TopNs,
          sort_mode \in SortModes, weights \in WeightSets :
            call' = RecommendRun(query_title, content_type, top_n, sort_mode, weights)
    /\ UNCHANGED <<catalogVars, engine, tieOrder, thread, serverVars>>

\* The caller has taken the value; it may call again
Return ==
    /\ call.pc = "done"
    /\ call' = IdleCall
    /\ UNCHANGED <<catalogVars, engine, tieOrder, thread, serverVars>>

-----------------------------------------------------------------------------
(* Concurrent calls of recommend (the server runs threaded): each caller  *)
(* takes the steps of recommend one at a time, on locals of its own.      *)

\* The threads of the server
Callers == {"t1", "t2"}

ConcQueries == { <<" ", "A">>, <<"x", "y">>, <<"z", "z">> }

ConcContentTypes == { <<>>, MOVIE }

ConcSortModes == {"none", "latest"}

\* recommend is entered
Begin(t) ==
    /\ thread[t].pc = "idle"
    /\ \E query_title \in ConcQueries, content_type \in ConcContentTypes,
          sort_mode \in ConcSortModes :
            thread' = [thread EXCEPT ![t] =
                          [IdleCall EXCEPT !.pc = "resolve",
                               !.query_title = query_title,
                               !.content_type = content_type,
                               !.top_n = MaxTopN, !.sort_mode = sort_mode]]
    /\ UNCHANGED <<catalogVars, engine, tieOrder, call, serverVars>>

\* idx = self.find_title_index(query_title); return None if idx is None
ResolveStep(t) ==
    /\ thread[t].pc = "resolve"
    /\ LET idx == FindTitleIndex(thread[t].query_title)
       IN  thread' = [thread EXCEPT ![t] =
               IF idx = None
               THEN [@ EXCEPT !.pc = "done", !.ret = [none |-> TRUE, rows |-> <<>>]]
               ELSE [@ EXCEPT !.pc = "select", !.idx = idx]]
    /\ UNCHANGED <<catalogVars, engine, tieOrder, call, serverVars>>

\* Strict same-type enforcement: cluster_peers
SelectStep(t) ==
    /\ thread[t].pc = "select"
    /\ LET sel == SelectPeers(thread[t].idx, thread[t].content_type)
       IN  thread' = [thread EXCEPT ![t] =
               [@ EXCEPT !.pc = "score", !.tier = sel.tier, !.peers = sel.peers]]
    /\ UNCHANGED <<catalogVars, engine, tieOrder, call, serverVars>>

\* The in-place variant: the substituted mean rating is stored in self.data
ScoreStepInPlace(t) ==
    /\ thread[t].pc = "score"
    /\ thread' = [thread EXCEPT ![t] =
           [@ EXCEPT !.pc = "remove",
                     !.rows = ScorePeers(thread[t].idx, thread[t].peers,
                                         thread[t].weights)]]
    /\ LET mean_r == MeanRating(thread[t].peers)
       IN  data' = [i \in DOMAIN data |->
                IF i \in Range(thread[t].peers) /\ data[i].rating <= 0 /\ ~IsNaN(mean_r)
                THEN [data[i] EXCEPT !.rating = mean_r.n \div mean_r.d]
                ELSE data[i]]
    /\ UNCHANGED <<embeddings, title_map, normalizers, engine, tieOrder, call,
                   serverVars>>

\* Cosine similarity, normalized features, weighted score: on the copy
ScoreStep(t) ==
    /\ thread[t].pc = "score"
    /\ thread' = [thread EXCEPT ![t] =
           [@ EXCEPT !.pc = "remove",
                     !.rows = ScorePeers(thread[t].idx, thread[t].peers,
                                         thread[t].weights)]]
    /\ UNCHANGED <<catalogVars, engine, tieOrder, call, serverVars>>

\* Remove self
RemoveStep(t) ==
    /\ thread[t].pc = "remove"
    /\ thread' = [thread EXCEPT ![t] =
           [@ EXCEPT !.pc = "sort", !.rows = RemoveSelf(thread[t].idx, thread[t].rows)]]
    /\ UNCHANGED <<catalogVars, engine, tieOrder, call, serverVars>>

\* The shuffling variant: the order of equal keys changes from call to call
SortStepShuffled(t) ==
    /\ thread[t].pc = "sort"
    /\ thread' = [thread EXCEPT ![t] =
           [@ EXCEPT !.pc = "dedup", !.rows = SortPeers(thread[t].rows, thread[t].sort_mode)]]
    /\ tieOrder' = IF tieOrder = "index" THEN "reverse" ELSE "index"
    /\ UNCHANGED <<catalogVars, engine, call, serverVars>>

\* Optional sort modes
SortStep(t) ==
    /\ thread[t].pc = "sort"
    /\ thread' = [thread EXCEPT ![t] =
           [@ EXCEPT !.pc = "dedup", !.rows = SortPeers(thread[t].rows, thread[t].sort_mode)]]
    /\ UNCHANGED <<catalogVars, engine, tieOrder, call, serverVars>>

\* Deduplicate franchises and return
DedupStep(t) ==
    /\ thread[t].pc = "dedup"
    /\ thread' = [thread EXCEPT ![t] =
           [@ EXCEPT !.pc = "done",
                     !.ret = [none |-> FALSE,
                              rows |-> ReturnValue(thread[t].rows, thread[t].top_n)]]]
    /\ UNCHANGED <<catalogVars, engine, tieOrder, call, serverVars>>

\* The caller has taken the value
FinishStep(t) ==
    /\ thread[t].pc = "done"
    /\ thread' = [thread EXCEPT ![t] = IdleCall]
    /\ UNCHANGED <<catalogVars, engine, tieOrder, call, serverVars>>

-----------------------------------------------------------------------------
(* app.py: the metadata cache and the /api/recommend handler.  A poster   *)
(* file is named by its title (the md5 name of _cache_filename); the      *)
(* external services are an input of each request.                        *)

\* MAX_CACHE_FILES, the most files _manage_cache_size leaves
MaxCacheFiles == 2

\* The most requests one run of the server handles
MaxRequests == 2

\* top_n of a payload without the field: int(payload.get("top_n", 10))
DefaultTopN == 10

\* What the services asked give: a result whose poster downloads, a result
\* without a poster, or no result (no key, no match, failed requests)
FetchOutcomes == {"poster", "noposter", "none"}

\* The content types fetch_metadata queries the TMDB search for
TmdbTypes ==
    { MOVIE, <<"m", "o", "v", "i", "e", "s">>,
      <<"s", "e", "r", "i", "e", "s">>, <<"t", "v">> }

\* key in metadata_cache
InCache(cache, title, content_type) ==
    \E e \in cache : e.title = title /\ e.content_type = content_type

\* metadata_cache[key]
CacheGet(cache, title, content_type) ==
    (CHOOSE e \in cache : e.title = title /\ e.content_type = content_type).meta

\* metadata_cache[key] = meta
CachePut(cache, title, content_type, meta) ==
    {e \in cache : ~(e.title = title /\ e.content_type = content_type)}
        \cup {[title |-> title, content_type |-> content_type, meta |-> meta]}

\* open(cached_path, "wb") and write: the file becomes the newest
WritePoster(files, title) ==
    Append(SelectIdx(files, Range(files) \ {title}), title)

\* _manage_cache_size: the oldest files beyond MAX_CACHE_FILES are removed
ManageCacheSize(files) ==
    IF Len(files) > MaxCacheFiles
    THEN SubSeq(files, Len(files) - MaxCacheFiles + 1, Len(files))
    ELSE files

\* The source field of a result: the service that answered
SourceOf(content_type, outcome) ==
    IF outcome = "none" THEN "fallback"
    ELSE IF content_type \in TmdbTypes THEN "tmdb"
    ELSE IF content_type = ANIME THEN "jikan"
    ELSE "tmdb_multi"

\* fetch_metadata(title, content_type), the whole call: the cache, the
\* poster files and the result after it
FetchMetadata(cache, files, title, content_type, outcome) ==
    IF InCache(cache, title, content_type)
    THEN [cache |-> cache, files |-> files,
          meta |-> CacheGet(cache, title, content_type)]
    ELSE LET had    == title \in Range(files)
             files2 == IF outcome = "poster"
                       THEN ManageCacheSize(WritePoster(files, title))
                       ELSE files
             meta   == [title  |-> title,
                        source |-> SourceOf(content_type, outcome),
                        poster |-> IF outcome = "poster" \/ had
                                   THEN "local" ELSE "placeholder"]
         IN  [cache |-> CachePut(cache, title, content_type, meta),
              files |-> files2, meta |-> meta]

\* The loop of api_recommend over the rows of recs_df: one fetch_metadata
\* per row, each seeing the cache and the files the one before left
RECURSIVE EnrichRows(_, _, _, _, _, _)
EnrichRows(rows, content_type, outcome, cache, files, enriched) ==
    IF rows = <<>>
    THEN [cache |-> cache, files |-> files, enriched |-> enriched]
    ELSE LET f == FetchMetadata(cache, files, Head(rows).title, content_type, outcome)
         IN  EnrichRows(Tail(rows), content_type, outcome, f.cache, f.files,
                        Append(enriched,
                               [title |-> f.meta.title, source |-> f.meta.source,
                                poster |-> f.meta.poster,
                                similarity |-> Head(rows).similarity,
                                final_score |-> Head(rows).final_score,
                                type |-> Head(rows).type,
                                cluster |-> Head(rows).cluster,
                                year |-> Head(rows).year]))

\* The payloads of the requests: title, type (empty when the field is
\* absent) and top_n (empty when the field is absent)
ApiTitles == { <<>>, <<" ", "A">>, <<"x", "y">>, <<"z", "z">> }

ApiTypes == { <<>>, <<"A", "n", "i", "m", "e", " ">> }

ApiTopNs == { <<>>, <<1>> }

NoMeta == [title |-> <<>>, source |-> "none", poster |-> "none"]

\* No request is being handled; served counts the requests handled so far
IdleRequest ==
    [pc |-> "idle", served |-> 0, title |-> <<>>, type |-> <<>>, top_n |-> <<>>,
     recs |-> IdleCall, status |-> 0, kind |-> "none", results |-> <<>>,
     fallback |-> NoMeta]

\* c_type or "movie"
TypeOrMovie(c_type) == IF c_type # <<>> THEN c_type ELSE MOVIE

\* The 'not found in dataset' response with the metadata of the title
NotFoundResponse(asked, recs, f) ==
    [request |-> [asked EXCEPT !.recs = recs, !.status = 200,
                     !.kind = "not_found", !.fallback = f.meta],
     cache |-> f.cache, files |-> f.files]

\* The response with the enriched recommendations
ResultsResponse(asked, recs, e) ==
    [request |-> [asked EXCEPT !.recs = recs, !.status = 200,
                     !.kind = "results", !.results = e.enriched],
     cache |-> e.cache, files |-> e.files]

\* api_recommend from the value of recommend on
HandleRecs(asked, recs, title, content_type, outcome) ==
    IF recs.ret.none \/ Len(recs.ret.rows) = 0
    THEN NotFoundResponse(asked, recs,
             FetchMetadata(metadata_cache, posters, title, content_type, outcome))
    ELSE ResultsResponse(asked, recs,
             EnrichRows(recs.ret.rows, content_type, outcome,
                        metadata_cache, posters, <<>>))

\* api_recommend(payload), the whole handler: the request with its response,
\* and the cache and the poster files after the metadata fetches
HandleRecommend(p_title, p_type, p_top_n, outcome) ==
    LET title  == Strip(p_title)
        c_type == TypeOrMovie(Lower(Strip(p_type)))
        top_n  == IF p_top_n = <<>> THEN DefaultTopN ELSE p_top_n[1]
        asked  == [request EXCEPT !.pc = "done", !.served = @ + 1,
                      !.title = p_title, !.type = p_type, !.top_n = p_top_n]
    IN  IF title = <<>>
        THEN [request |-> [asked EXCEPT !.status = 400, !.kind = "missing_title"],
              cache |-> metadata_cache, files |-> posters]
        ELSE HandleRecs(asked,
                        RecommendRun(title, c_type, top_n, "none", DefaultWeights),
                        title, c_type, outcome)

\* POST /api/recommend
ApiRecommend ==
    /\ request.pc = "idle"
    /\ request.served < MaxRequests
    /\ \E p_title \in ApiTitles, p_type \in ApiTypes, p_top_n \in ApiTopNs,
          outcome \in FetchOutcomes :
        \E h \in {HandleRecommend(p_title, p_type, p_top_n, outcome)} :
            /\ request' = h.request
            /\ metadata_cache' = h.cache
            /\ posters' = h.files
    /\ UNCHANGED <<catalogVars, engine, tieOrder, call, thread, cache_lock, worker, favVars>>

\* The response is sent; the cache and the poster files stay
Respond ==
    /\ request.pc = "done"
    /\ request' = [IdleRequest EXCEPT !.served = request.served]
    /\ UNCHANGED <<catalogVars, engine, tieOrder, call, thread, metadata_cache, posters,
                   cache_lock, worker, favVars>>

-----------------------------------------------------------------------------
(* Concurrent calls of fetch_metadata (the server runs threaded): each     *)
(* worker takes the steps of fetch_metadata one at a time; cache_lock is   *)
(* held only inside the with blocks of the code.                           *)

MetaTitles == { <<"A">>, <<"x">> }

MetaTypes == { MOVIE }

\* A worker that is not inside fetch_metadata
IdleWorker ==
    [pc |-> "idle", title |-> <<>>, content_type |-> <<>>, outcome |-> "none",
     had |-> FALSE, missed |-> FALSE, looked |-> FALSE, wrote |-> FALSE,
     listed |-> {}, victims |-> <<>>, meta |-> NoMeta,
     api_key |-> FALSE, tmdb_requests |-> 0, jikan_requests |-> 0,
     multi_requests |-> 0, errors |-> 0]

\* fetch_metadata(title, content_type) is entered
EnterFetch(w) ==
    /\ worker[w].pc = "idle"
    /\ \E title \in MetaTitles, content_type \in MetaTypes, outcome \in FetchOutcomes :
           worker' = [worker EXCEPT ![w] =
                         [IdleWorker EXCEPT !.pc = "lock_check", !.title = title,
                              !.content_type = content_type, !.outcome = outcome]]
    /\ UNCHANGED <<catalogVars, engine, tieOrder, call, thread, request, metadata_cache,
                   posters, cache_lock, favVars>>

\* with cache_lock: (the first block) the lock is taken
AcquireForCheck(w) ==
    /\ worker[w].pc = "lock_check"
    /\ cache_lock = "free"
    /\ cache_lock' = w
    /\ worker' = [worker EXCEPT ![w].pc = "check"]
    /\ UNCHANGED <<catalogVars, engine, tieOrder, call, thread, request, metadata_cache, posters,
                   favVars>>

\* if key in metadata_cache: return metadata_cache[key]; the block is left
\* and the lock released either way
CheckCache(w) ==
    /\ worker[w].pc = "check"
    /\ cache_lock = w
    /\ cache_lock' = "free"
    /\ worker' = [worker EXCEPT ![w] =
           IF InCache(metadata_cache, worker[w].title, worker[w].content_type)
           THEN [@ EXCEPT !.pc = "done",
                          !.meta = CacheGet(metadata_cache, worker[w].title,
                                            worker[w].content_type)]
           ELSE [@ EXCEPT !.pc = "exists", !.missed = TRUE]]
    /\ UNCHANGED <<catalogVars, engine, tieOrder, call, thread, request, metadata_cache, posters,
                   favVars>>

\* os.path.exists(cached_path)
PosterExists(w) ==
    /\ worker[w].pc = "exists"
    /\ worker' = [worker EXCEPT ![w] =
           [@ EXCEPT !.pc = "lookup",
                     !.had = worker[w].title \in Range(posters)]]
    /\ UNCHANGED <<catalogVars, engine, tieOrder, call, thread, request, metadata_cache,
                   posters, cache_lock, favVars>>

\* The requests to the external services and the poster download
Lookup(w) ==
    /\ worker[w].pc = "lookup"
    /\ worker' = [worker EXCEPT ![w] =
           [@ EXCEPT !.pc = IF worker[w].outcome = "poster"
                            THEN "write" ELSE "lock_store",
                     !.looked = TRUE,
                     !.meta = [title  |-> worker[w].title,
                               source |-> SourceOf(worker[w].content_type,
                                                   worker[w].outcome),
                               poster |-> IF worker[w].outcome = "poster"
                                             \/ worker[w].had
                                          THEN "local" ELSE "placeholder"]]]
    /\ UNCHANGED <<catalogVars, engine, tieOrder, call, thread, request, metadata_cache,
                   posters, cache_lock, favVars>>

\* with open(cached_path, "wb") as fh: fh.write(img)
WriteFile(w) ==
    /\ worker[w].pc = "write"
    /\ posters' = WritePoster(posters, worker[w].title)
    /\ worker' = [worker EXCEPT ![w] = [@ EXCEPT !.pc = "manage", !.wrote = TRUE]]
    /\ UNCHANGED <<catalogVars, engine, tieOrder, call, thread, request, metadata_cache,
                   cache_lock, favVars>>

\* The files of a listing, oldest first by the modification times now
ByMtime(listed, files) == SelectIdx(files, listed)

\* _manage_cache_size: os.listdir(POSTER_CACHE)
ListDir(w) ==
    /\ worker[w].pc = "manage"
    /\ worker' = [worker EXCEPT ![w] =
           [@ EXCEPT !.pc = "sort", !.listed = Range(posters)]]
    /\ UNCHANGED <<catalogVars, engine, tieOrder, call, thread, request, metadata_cache,
                   posters, cache_lock, favVars>>

\* _manage_cache_size: sorted(..., key=os.path.getmtime) and the slice
\* files[:len(files) - MAX_CACHE_FILES]; getmtime raises for a listed file
\* that is gone, the except clause of fetch_metadata takes the remote poster
SortByMtime(w) ==
    /\ worker[w].pc = "sort"
    /\ worker' = [worker EXCEPT ![w] =
           IF ~(worker[w].listed \subseteq Range(posters))
           THEN [@ EXCEPT !.pc = "lock_store", !.listed = {},
                          !.meta = [worker[w].meta EXCEPT !.poster = "remote"]]
           ELSE IF Cardinality(worker[w].listed) > MaxCacheFiles
           THEN [@ EXCEPT !.pc = "remove", !.listed = {},
                          !.victims = Prefix(ByMtime(worker[w].listed, posters),
                                             Cardinality(worker[w].listed)
                                                 - MaxCacheFiles)]
           ELSE [@ EXCEPT !.pc = "lock_store", !.listed = {}]]
    /\ UNCHANGED <<catalogVars, engine, tieOrder, call, thread, request, metadata_cache,
                   posters, cache_lock, favVars>>

\* _manage_cache_size: os.remove(f) for the next file of the slice; a file
\* that is gone is passed over
RemoveFile(w) ==
    /\ worker[w].pc = "remove"
    /\ posters' = SelectIdx(posters, Range(posters) \ {Head(worker[w].victims)})
    /\ worker' = [worker EXCEPT ![w] =
           [@ EXCEPT !.pc = IF Len(worker[w].victims) = 1
                            THEN "lock_store" ELSE "remove",
                     !.victims = Tail(worker[w].victims)]]
    /\ UNCHANGED <<catalogVars, engine, tieOrder, call, thread, request, metadata_cache,
                   cache_lock, favVars>>

\* with cache_lock: (the block around the cache write) the lock is taken
AcquireForStore(w) ==
    /\ worker[w].pc = "lock_store"
    /\ cache_lock = "free"
    /\ cache_lock' = w
    /\ worker' = [worker EXCEPT ![w].pc = "store"]
    /\ UNCHANGED <<catalogVars, engine, tieOrder, call, thread, request, metadata_cache, posters,
                   favVars>>

\* metadata_cache[key] = result; the lock is released
StoreResult(w) ==
    /\ worker[w].pc = "store"
    /\ cache_lock = w
    /\ cache_lock' = "free"
    /\ metadata_cache' = CachePut(metadata_cache, worker[w].title,
                                  worker[w].content_type, worker[w].meta)
    /\ worker' = [worker EXCEPT ![w].pc = "done"]
    /\ UNCHANGED <<catalogVars, engine, tieOrder, call, thread, request, posters, favVars>>

\* return result: the caller has the metadata
LeaveFetch(w) ==
    /\ worker[w].pc = "done"
    /\ worker' = [worker EXCEPT ![w] = IdleWorker]
    /\ UNCHANGED <<catalogVars, engine, tieOrder, call, thread, request, metadata_cache,
                   posters, cache_lock, favVars>>

-----------------------------------------------------------------------------
(* fetch_metadata, one call, request by request                            *)

\* max_tmdb_attempts of fetch_metadata
MaxTmdbAttempts == 2

\* content_type of a call: a type TMDB is searched for, anime, and a type
\* neither branch takes
LookupTypes == { MOVIE, ANIME, <<"u", "n", "k", "n", "o", "w", "n">> }

\* title of a call
LookupTitles == { <<"A">> }

\* What a search request gives: a request error (no connection, timeout,
\* error status), a response with no results, a response with a result whose
\* poster downloads, whose poster does not download, or without a poster,
\* and a response whose body is not a JSON object
SearchResponses == {"error", "empty", "poster", "remote", "noposter", "malformed"}

\* The responses with a result
WithResult == {"poster", "remote", "noposter"}

\* The part of fetch_metadata that follows the Jikan branch
AfterJikan(api_key) == IF api_key THEN "multi" ELSE "fallback"

\* The part of fetch_metadata that follows the TMDB search loop
AfterTmdb(content_type, api_key) ==
    IF content_type = ANIME THEN "jikan" ELSE AfterJikan(api_key)

\* The part of fetch_metadata that follows the cache miss
AfterMiss(content_type, api_key) ==
    IF api_key /\ content_type \in TmdbTypes THEN "tmdb"
    ELSE AfterTmdb(content_type, api_key)

\* The poster of a result: the local file when the poster was written or a
\* file was there, the remote address when the download or the write failed
PosterOf(response, had) ==
    IF response = "poster" THEN "local"
    ELSE IF response = "remote" THEN "remote"
    ELSE IF had THEN "local" ELSE "placeholder"

\* The poster files after a result: the written poster and the
\* _manage_cache_size pass
FilesAfter(response, title) ==
    IF response = "poster" THEN ManageCacheSize(WritePoster(posters, title))
    ELSE posters

\* result = {...}; metadata_cache[key] = result; return result
ReturnResult(w, source, response) ==
    \E meta \in {[title |-> worker[w].title, source |-> source,
                  poster |-> PosterOf(response, worker[w].had)]} :
        /\ posters' = FilesAfter(response, worker[w].title)
        /\ metadata_cache' = CachePut(metadata_cache, worker[w].title,
                                      worker[w].content_type, meta)
        /\ worker' = [worker EXCEPT ![w].pc = "done", ![w].meta = meta,
                                    ![w].looked = TRUE,
                                    ![w].wrote = (response = "poster"),
                                    ![w].tmdb_requests =
                                        @ + (IF source = "tmdb" THEN 1 ELSE 0),
                                    ![w].jikan_requests =
                                        @ + (IF source = "jikan" THEN 1 ELSE 0),
                                    ![w].multi_requests =
                                        @ + (IF source = "tmdb_multi" THEN 1 ELSE 0)]

\* fetch_metadata(title, content_type) up to the first request: the cached
\* record is returned, or the poster file is looked for
StartLookup(w) ==
    /\ worker[w].pc = "idle"
    /\ \E title \in LookupTitles, content_type \in LookupTypes, api_key \in BOOLEAN :
           worker' = [worker EXCEPT ![w] =
               IF InCache(metadata_cache, title, content_type)
               THEN [IdleWorker EXCEPT !.pc = "done", !.title = title,
                        !.content_type = content_type, !.api_key = api_key,
                        !.meta = CacheGet(metadata_cache, title, content_type)]
               ELSE [IdleWorker EXCEPT !.pc = AfterMiss(content_type, api_key),
                        !.title = title, !.content_type = content_type,
                        !.api_key = api_key, !.missed = TRUE,
                        !.had = title \in Range(posters)]]
    /\ UNCHANGED <<catalogVars, engine, tieOrder, call, thread, request,
                   metadata_cache, posters, cache_lock, favVars>>

\* One pass of the loop over range(max_tmdb_attempts): a request error is
\* caught and the next attempt follows, a response with no results leaves the
\* loop, a result is returned; any other exception leaves fetch_metadata
TmdbSearch(w) ==
    /\ worker[w].pc = "tmdb"
    /\ \E response \in SearchResponses :
        IF response \in WithResult
        THEN ReturnResult(w, "tmdb", response)
        ELSE /\ worker' = [worker EXCEPT
                   ![w].tmdb_requests = @ + 1,
                   ![w].looked = TRUE,
                   ![w].errors = @ + (IF response = "error" THEN 1 ELSE 0),
                   ![w].pc = IF response = "malformed" THEN "raised"
                             ELSE IF response = "error"
                                     /\ worker[w].tmdb_requests + 1 < MaxTmdbAttempts
                             THEN "tmdb"
                             ELSE AfterTmdb(worker[w].content_type,
                                            worker[w].api_key)]
             /\ UNCHANGED <<metadata_cache, posters>>
    /\ UNCHANGED <<catalogVars, engine, tieOrder, call, thread, request,
                   cache_lock, favVars>>

\* The Jikan branch: one request; every exception is caught
JikanSearch(w) ==
    /\ worker[w].pc = "jikan"
    /\ \E response \in SearchResponses :
        IF response \in WithResult
        THEN ReturnResult(w, "jikan", response)
        ELSE /\ worker' = [worker EXCEPT
                   ![w].jikan_requests = @ + 1,
                   ![w].looked = TRUE,
                   ![w].errors = @ + (IF response = "error" THEN 1 ELSE 0),
                   ![w].pc = AfterJikan(worker[w].api_key)]
             /\ UNCHANGED <<metadata_cache, posters>>
    /\ UNCHANGED <<catalogVars, engine, tieOrder, call, thread, request,
                   cache_lock, favVars>>

\* The TMDB multi-search: one request; every exception is caught
MultiSearch(w) ==
    /\ worker[w].pc = "multi"
    /\ \E response \in SearchResponses :
        IF response \in WithResult
        THEN ReturnResult(w, "tmdb_multi", response)
        ELSE /\ worker' = [worker EXCEPT
                   ![w].multi_requests = @ + 1,
                   ![w].looked = TRUE,
                   ![w].errors = @ + (IF response = "error" THEN 1 ELSE 0),
                   ![w].pc = "fallback"]
             /\ UNCHANGED <<metadata_cache, posters>>
    /\ UNCHANGED <<catalogVars, engine, tieOrder, call, thread, request,
                   cache_lock, favVars>>

\* metadata_cache[key] = fallback; return fallback
ReturnFallback(w) ==
    /\ worker[w].pc = "fallback"
    /\ \E meta \in {[title |-> worker[w].title, source |-> "fallback",
                     poster |-> PosterOf("noposter", worker[w].had)]} :
        /\ metadata_cache' = CachePut(metadata_cache, worker[w].title,
                                      worker[w].content_type, meta)
        /\ worker' = [worker EXCEPT ![w].pc = "done", ![w].meta = meta]
    /\ UNCHANGED <<catalogVars, engine, tieOrder, call, thread, request, posters,
                   cache_lock, favVars>>

\* The exception has left fetch_metadata; the caller has caught it
LookupRaised(w) ==
    /\ worker[w].pc = "raised"
    /\ worker' = [worker EXCEPT ![w] = IdleWorker]
    /\ UNCHANGED <<catalogVars, engine, tieOrder, call, thread, request,
                   metadata_cache, posters, cache_lock, favVars>>

-----------------------------------------------------------------------------
(* routes/fav_routes.py: the favorites of the users                        *)

\* user_id of a request; <<>> stands for a missing or empty one
FavUsers == { <<>>, <<"u", "1">>, <<"u", "2">> }

\* The title of the movie of a request; <<>> stands for a missing movie and
\* for a movie without a title
FavTitles == { <<>>, <<"A">>, <<"x">> }

\* The JSON body of a DELETE request: an object, or the value null
FavBodies == {"object", "null"}

\* No favorites request has been handled
NoReply ==
    [op |-> "none", user_id |-> <<>>, title |-> <<>>, body |-> "object",
     status |-> 0, message |-> "none"]

\* The documents of the collection with the given user_id and movie_id
Matching(docs, user_id, movie_id) ==
    {i \in DOMAIN docs : docs[i].user_id = user_id /\ docs[i].movie_id = movie_id}

\* db.favorites.insert_one(favorite) under the unique index on
\* (user_id, movie_id): DuplicateKeyError when the pair is there
InsertOne(docs, user_id, movie_id) ==
    IF Matching(docs, user_id, movie_id) # {}
    THEN [docs |-> docs, duplicate |-> TRUE]
    ELSE [docs |-> Append(docs, [user_id |-> user_id, movie_id |-> movie_id]),
          duplicate |-> FALSE]

\* db.favorites.delete_one(filter): the first matching document is removed
DeleteOne(docs, user_id, movie_id) ==
    LET found == Matching(docs, user_id, movie_id)
    IN  IF found = {} THEN [docs |-> docs, deleted_count |-> 0]
        ELSE LET first == CHOOSE i \in found : \A j \in found : i <= j
             IN  [docs |-> [k \in 1..(Len(docs) - 1) |->
                               IF k < first THEN docs[k] ELSE docs[k + 1]],
                  deleted_count |-> 1]

\* POST /favorites
AddFavorite ==
    /\ \E user_id \in FavUsers, title \in FavTitles :
        LET asked == [NoReply EXCEPT !.op = "add", !.user_id = user_id,
                                     !.title = title]
        IN  IF user_id = <<>> \/ title = <<>>
            THEN /\ reply' = [asked EXCEPT !.status = 400, !.message = "required"]
                 /\ favorites' = favorites
            ELSE \E ins \in {InsertOne(favorites, user_id, title)} :
                 /\ favorites' = ins.docs
                 /\ reply' = IF ins.duplicate
                             THEN [asked EXCEPT !.status = 200,
                                                !.message = "Already in favorites"]
                             ELSE [asked EXCEPT !.status = 201,
                                                !.message = "Added to favorites"]
    /\ UNCHANGED <<catalogVars, engine, tieOrder, call, thread, request,
                   metadata_cache, posters, cache_lock, worker>>

\* DELETE /favorites/<user_id>: request.json.get('movie_title') raises
\* AttributeError when the body is null, and the request fails with 500
RemoveFavorite ==
    /\ \E user_id \in FavUsers \ {<<>>}, title \in FavTitles, body \in FavBodies :
        LET asked == [NoReply EXCEPT !.op = "remove", !.user_id = user_id,
                                     !.title = IF body = "null" THEN <<>> ELSE title,
                                     !.body = body]
        IN  IF body = "null"
            THEN /\ reply' = [asked EXCEPT !.status = 500,
                                           !.message = "Internal Server Error"]
                 /\ favorites' = favorites
            ELSE IF title = <<>>
            THEN /\ reply' = [asked EXCEPT !.status = 400, !.message = "required"]
                 /\ favorites' = favorites
            ELSE \E del \in {DeleteOne(favorites, user_id, title)} :
                 /\ favorites' = del.docs
                 /\ reply' = IF del.deleted_count # 0
                             THEN [asked EXCEPT !.status = 200,
                                                !.message = "Removed from favorites"]
                             ELSE [asked EXCEPT !.status = 404,
                                                !.message = "Not found"]
    /\ UNCHANGED <<catalogVars, engine, tieOrder, call, thread, request,
                   metadata_cache, posters, cache_lock, worker>>

-----------------------------------------------------------------------------
\* The web application as it starts
ServerStart ==
    /\ request = IdleRequest
    /\ metadata_cache = {}
    /\ posters = <<>>
    /\ cache_lock = "free"
    /\ worker = [w \in Callers |-> IdleWorker]
    /\ favorites = <<>>
    /\ reply = NoReply

-----------------------------------------------------------------------------
(* The engine after HybridRecommender.__init__ *)

Loaded(catalog) ==
    /\ data = [i \in DOMAIN catalog |->
                  [title |-> catalog[i].title, type |-> catalog[i].type,
                   cluster |-> catalog[i].cluster, rating |-> catalog[i].rating,
                   popularity |-> catalog[i].popularity, year |-> catalog[i].year]]
    /\ embeddings = [i \in DOMAIN catalog |-> catalog[i].emb]
    /\ title_map = TitleMapOf(catalog)
    /\ normalizers = ComputeNormalizers(catalog)
    /\ engine = "ready"

Init ==
    /\ \E catalog \in Catalogs : Loaded(catalog)
    /\ tieOrder \in TieOrders
    /\ call = IdleCall
    /\ thread = [t \in Callers |-> IdleCall]
    /\ ServerStart

Next == Recommend \/ Return

Spec == Init /\ [][Next]_vars

\* The catalogs of the concurrent callers: those of MaxRows - 1 rows that
\* begin with the first two rows of the pool
ConcCatalogs ==
    {c \in Catalogs : Len(c) = MaxRows - 1 /\ c[1] = RowPool[1] /\ c[2] = RowPool[2]}

InitConc ==
    /\ \E catalog \in ConcCatalogs : Loaded(catalog)
    /\ tieOrder \in TieOrders
    /\ call = IdleCall
    /\ thread = [t \in Callers |-> IdleCall]
    /\ ServerStart

NextConc ==
    \E t \in Callers :
        \/ Begin(t)
        \/ ResolveStep(t)
        \/ SelectStep(t)
        \/ ScoreStep(t)
        \/ RemoveStep(t)
        \/ SortStep(t)
        \/ DedupStep(t)
        \/ FinishStep(t)

SpecConc == InitConc /\ [][NextConc]_vars

\* The catalogs of the web application: those of MaxRows - 2 rows that begin
\* with the anime row of the pool
ApiCatalogs == {c \in Catalogs : Len(c) = MaxRows - 2 /\ c[1].type = ANIME}

InitApi ==
    /\ \E catalog \in ApiCatalogs : Loaded(catalog)
    /\ tieOrder \in TieOrders
    /\ call = IdleCall
    /\ thread = [t \in Callers |-> IdleCall]
    /\ ServerStart

NextApi == ApiRecommend \/ Respond

SpecApi == InitApi /\ [][NextApi]_vars

\* The poster files an earlier run of the server left, oldest first: as many
\* as the cache may hold
StoredPosters == Prefix(<< <<"x">>, <<"C">>, <<"y">>, <<"a">> >>, MaxCacheFiles)

\* The server starts on a poster directory that is empty or full
InitMeta ==
    /\ Loaded(SubSeq(RowPool, 1, 1))
    /\ tieOrder = "index"
    /\ call = IdleCall
    /\ thread = [t \in Callers |-> IdleCall]
    /\ request = IdleRequest
    /\ metadata_cache = {}
    /\ posters \in {<<>>, StoredPosters}
    /\ cache_lock = "free"
    /\ worker = [w \in Callers |-> IdleWorker]
    /\ favorites = <<>>
    /\ reply = NoReply

NextMeta ==
    \E w \in Callers :
        \/ EnterFetch(w)
        \/ AcquireForCheck(w)
        \/ CheckCache(w)
        \/ PosterExists(w)
        \/ Lookup(w)
        \/ WriteFile(w)
        \/ ListDir(w)
        \/ SortByMtime(w)
        \/ RemoveFile(w)
        \/ AcquireForStore(w)
        \/ StoreResult(w)
        \/ LeaveFetch(w)

SpecMeta == InitMeta /\ [][NextMeta]_vars

\* The thread whose call is followed request by request
LookupWorkers == {"t1"}

NextLookup ==
    \E w \in LookupWorkers :
        \/ StartLookup(w)
        \/ TmdbSearch(w)
        \/ JikanSearch(w)
        \/ MultiSearch(w)
        \/ ReturnFallback(w)
        \/ LookupRaised(w)
        \/ LeaveFetch(w)

\* Every call goes on: a thread of the server is not stopped for ever
SpecLookup == InitMeta /\ [][NextLookup]_vars /\ WF_vars(NextLookup)

\* The web application with an empty favorites collection
InitFav ==
    /\ Loaded(SubSeq(RowPool, 1, 1))
    /\ tieOrder = "index"
    /\ call = IdleCall
    /\ thread = [t \in Callers |-> IdleCall]
    /\ ServerStart

NextFav == AddFavorite \/ RemoveFavorite

SpecFav == InitFav /\ [][NextFav]_vars

-----------------------------------------------------------------------------
(* HybridRecommender.__init__ on artifacts that need not fit the dataset *)

\* The datasets the engine is built on
LoadCatalogs == {c \in Catalogs : Len(c) <= MaxRows - 2}

\* Rows of a saved artifact beyond (or short of) the rows of the dataset
RowOffsets == {-1, 0, 1}

\* np.load(embeddings_path): an array of n rows, those of the dataset first
EmbeddingFile(catalog, n) ==
    [i \in 1..n |-> IF i <= Len(catalog) THEN catalog[i].emb ELSE <<1, 0>>]

\* saved["clusters"]: an array of n labels, those of the dataset first
ClusterFile(catalog, n) ==
    [i \in 1..n |-> IF i <= Len(catalog) THEN catalog[i].cluster ELSE 1]

\* km.fit_predict(self.embeddings): one label per row of the embeddings
FitPredict(catalog, emb) == ClusterFile(catalog, Len(emb))

\* No engine has been built
Unbuilt ==
    /\ data = <<>>
    /\ embeddings = <<>>
    /\ title_map = <<>>
    /\ normalizers = [rating_max |-> 1, pop_max |-> 1, year_max |-> 2025,
                      year_min |-> 2025]
    /\ engine = "unbuilt"

\* HybridRecommender(dataset_path, embeddings_path, clusters_path): the
\* embeddings are loaded as saved; the labels are loaded as saved, or fitted
\* on the embeddings when no file is there; self.data["cluster"] = labels
\* raises when the labels are not one per row of the table
Construct ==
    /\ engine = "unbuilt"
    /\ \E catalog \in LoadCatalogs, emb_off \in RowOffsets, cl_off \in RowOffsets,
          has_clusters \in BOOLEAN :
        LET emb    == EmbeddingFile(catalog, Len(catalog) + emb_off)
            labels == IF has_clusters
                      THEN ClusterFile(catalog, Len(catalog) + cl_off)
                      ELSE FitPredict(catalog, emb)
        IN  IF Len(labels) # Len(catalog)
            THEN /\ engine' = "failed"
                 /\ UNCHANGED catalogVars
            ELSE /\ data' = [i \in DOMAIN catalog |->
                                [title |-> catalog[i].title, type |-> catalog[i].type,
                                 cluster |-> labels[i], rating |-> catalog[i].rating,
                                 popularity |-> catalog[i].popularity,
                                 year |-> catalog[i].year]]
                 /\ embeddings' = emb
                 /\ title_map' = TitleMapOf(catalog)
                 /\ normalizers' = ComputeNormalizers(catalog)
                 /\ engine' = "ready"
    /\ UNCHANGED <<tieOrder, call, thread, serverVars>>

\* self.embeddings[idx] and self.embeddings[cluster_peers.index] are rows of
\* the array
EmbeddingsCover(query_title, content_type) ==
    LET idx == FindTitleIndex(query_title)
    IN  \/ idx = None
        \/ /\ idx <= Len(embeddings)
           /\ \A i \in Range(SelectPeers(idx, content_type).peers) :
                  i <= Len(embeddings)

\* recommend on the engine as built; an index outside the embeddings raises
\* IndexError
RecommendLoaded ==
    /\ engine = "ready"
    /\ call.pc = "idle"
    /\ \E query_title \in Queries :
           call' = IF EmbeddingsCover(query_title, <<>>)
                   THEN RecommendRun(query_title, <<>>, MaxTopN, "none",
                                     DefaultWeights)
                   ELSE [IdleCall EXCEPT !.pc = "raised",
                                         !.query_title = query_title]
    /\ UNCHANGED <<catalogVars, engine, tieOrder, thread, serverVars>>

\* The caller has caught the exception
Raised ==
    /\ call.pc = "raised"
    /\ call' = IdleCall
    /\ UNCHANGED <<catalogVars, engine, tieOrder, thread, serverVars>>

InitLoad ==
    /\ Unbuilt
    /\ tieOrder \in TieOrders
    /\ call = IdleCall
    /\ thread = [t \in Callers |-> IdleCall]
    /\ ServerStart

NextLoad == Construct \/ RecommendLoaded \/ Return \/ Raised

SpecLoad == InitLoad /\ [][NextLoad]_vars

-----------------------------------------------------------------------------
(* The verification script: recommend for a title and a category label *)

SERIES == <<"s", "e", "r", "i", "e", "s">>

\* A series of the dataset
SeriesRow ==
    [title |-> <<"s">>, type |-> SERIES, cluster |-> 2,
     rating |-> 4, popularity |-> 1, year |-> 2020, emb |-> <<1, 0>>]

\* The datasets of the script: a series and rows of the other categories
TestCatalogs == {Append(c, SeriesRow) : c \in LoadCatalogs}

\* test_titles: a title of the dataset and the label of its category
test_titles ==
    { <<<<"x", " ", "y">>, <<"m", "o", "v", "i", "e", "s">>>>,
      <<<<"x">>, <<"m", "o", "v", "i", "e", "s">>>>,
      <<<<"s">>, SERIES>>,
      <<<<"a">>, ANIME>> }

\* top_n of the script's calls
TestTopN == 5

\* The type column after replace({...}) of __init__: plural and alternate
\* names become the canonical type
CanonicalType(t) ==
    CASE t = <<"m", "o", "v", "i", "e", "s">> -> MOVIE
      [] t = <<"a", "n", "i", "m", "e", "s">> -> ANIME
      [] t = <<"t", "v">> -> SERIES
      [] OTHER -> t

\* recs = model.recommend(title, content_type=ctype, top_n=5)
TestRecommend ==
    /\ call.pc = "idle"
    /\ \E pair \in test_titles :
           call' = RecommendRun(pair[1], pair[2], TestTopN, "none", DefaultWeights)
    /\ UNCHANGED <<catalogVars, engine, tieOrder, thread, serverVars>>

InitTest ==
    /\ \E catalog \in TestCatalogs : Loaded(catalog)
    /\ tieOrder \in TieOrders
    /\ call = IdleCall
    /\ thread = [t \in Callers |-> IdleCall]
    /\ ServerStart

NextTest == TestRecommend \/ Return

SpecTest == InitTest /\ [][NextTest]_vars

-----------------------------------------------------------------------------
(* recommend under every sort mode *)

\* sort_mode: None, the four modes of recommend, and a value it does not know
AllSortModes == {"none", "latest", "oldest", "popular", "top_rated", "newest"}

\* The sort modes recommend has a branch for
KnownSortModes == {"latest", "oldest", "popular", "top_rated"}

\* The catalogs of the sorted calls: those of MaxRows - 1 rows
SortCatalogs == {c \in Catalogs : Len(c) = MaxRows - 1}

\* HybridRecommender.recommend with a sort mode, the whole call
RecommendSorted ==
    /\ call.pc = "idle"
    /\ \E query_title \in Queries, content_type \in ContentTypes, top_n \in TopNs,
          sort_mode \in AllSortModes :
            call' = RecommendRun(query_title, content_type, top_n, sort_mode,
                                 DefaultWeights)
    /\ UNCHANGED <<catalogVars, engine, tieOrder, thread, serverVars>>

InitSort ==
    /\ \E catalog \in SortCatalogs : Loaded(catalog)
    /\ tieOrder \in TieOrders
    /\ call = IdleCall
    /\ thread = [t \in Callers |-> IdleCall]
    /\ ServerStart

NextSort == RecommendSorted \/ Return

SpecSort == InitSort /\ [][NextSort]_vars

-----------------------------------------------------------------------------
(* recommend on titles that begin with a subtitle delimiter *)

\* Movies of one cluster; the base of "(x" and of "(y" is the empty string
DedupPool ==
    << [title |-> <<"A">>, type |-> MOVIE, cluster |-> 1,
        rating |-> 8, popularity |-> 2, year |-> 2010, emb |-> <<1, 0>>],
       [title |-> <<"A", ":", " ", "R">>, type |-> MOVIE, cluster |-> 1,
        rating |-> 4, popularity |-> 1, year |-> 2020, emb |-> <<4, 3>>],
       [title |-> <<"(", "x">>, type |-> MOVIE, cluster |-> 1,
        rating |-> 4, popularity |-> 1, year |-> 2010, emb |-> <<3, 4>>],
       [title |-> <<"(", "y">>, type |-> MOVIE, cluster |-> 1,
        rating |-> 8, popularity |-> 0, year |-> 2020, emb |-> <<0, 1>>],
       [title |-> <<"x", " ", "y">>, type |-> MOVIE, cluster |-> 1,
        rating |-> 8, popularity |-> 1, year |-> 2020, emb |-> <<4, 3>>],
       [title |-> <<"x">>, type |-> MOVIE, cluster |-> 1,
        rating |-> 4, popularity |-> 0, year |-> 2010, emb |-> <<3, 4>>] >>

\* The catalogs of these calls: the rows of DedupPool at 1 to MaxRows
\* positions, in the pool's order
DedupCatalogs ==
    {SelectIdx(DedupPool, {DedupPool[i] : i \in S}) :
        S \in {T \in SUBSET (1..Len(DedupPool)) :
                  Cardinality(T) >= 1 /\ Cardinality(T) <= MaxRows}}

\* HybridRecommender.recommend with the default ordering, the whole call
RecommendDedup ==
    /\ call.pc = "idle"
    /\ \E query_title \in Queries, top_n \in TopNs :
           call' = RecommendRun(query_title, <<>>, top_n, "none", DefaultWeights)
    /\ UNCHANGED <<catalogVars, engine, tieOrder, thread, serverVars>>

InitDedup ==
    /\ \E catalog \in DedupCatalogs : Loaded(catalog)
    /\ tieOrder \in TieOrders
    /\ call = IdleCall
    /\ thread = [t \in Callers |-> IdleCall]
    /\ ServerStart

NextDedup == RecommendDedup \/ Return

SpecDedup == InitDedup /\ [][NextDedup]_vars

-----------------------------------------------------------------------------
(* recommend with a caller's weights *)

\* The keys recommend reads from weights
WeightKeys == {"sim", "rating", "pop", "recency"}

\* weights as callers pass them: None (the default), a full override, and
\* overrides of some of the weights only
WeightOverrides ==
    { DefaultWeights, LowSimWeights,
      [sim |-> Rat(80, 100)],
      [sim |-> Rat(40, 100), rating |-> Rat(40, 100), pop |-> Rat(20, 100)] }

\* HybridRecommender.recommend with the caller's weights, the whole call:
\* weights[...] of a key the dict does not hold raises KeyError where
\* final_score is computed, after the title has been resolved
RecommendWeighted ==
    /\ call.pc = "idle"
    /\ \E query_title \in Queries, content_type \in ContentTypes, top_n \in TopNs,
          sort_mode \in SortModes, weights \in WeightOverrides :
            call' = IF FindTitleIndex(query_title) = None
                       \/ WeightKeys \subseteq DOMAIN weights
                    THEN RecommendRun(query_title, content_type, top_n, sort_mode,
                                      weights)
                    ELSE [IdleCall EXCEPT !.pc = "raised",
                                          !.query_title = query_title,
                                          !.content_type = content_type,
                                          !.top_n = top_n, !.sort_mode = sort_mode,
                                          !.weights = weights]
    /\ UNCHANGED <<catalogVars, engine, tieOrder, thread, serverVars>>

InitWeights ==
    /\ \E catalog \in LoadCatalogs : Loaded(catalog)
    /\ tieOrder \in TieOrders
    /\ call = IdleCall
    /\ thread = [t \in Callers |-> IdleCall]
    /\ ServerStart

NextWeights == RecommendWeighted \/ Return \/ Raised

SpecWeights == InitWeights /\ [][NextWeights]_vars

-----------------------------------------------------------------------------
(* Properties of a finished call *)

Done == call.pc = "done"

Found == Done /\ ~call.ret.none

QueryTitle == Lower(data[call.idx].title)

\* The rows of the selected pool whose lowercased title is not the query's
Candidates == {i \in Range(call.peers) : Lower(data[i].title) # QueryTitle}

\* Positions of call.rows not same-franchise with any other position
Isolated ==
    {p \in DOMAIN call.rows :
        \A q \in DOMAIN call.rows \ {p} :
            ~IsSameFranchise(call.rows[p].title, call.rows[q].title)}

\* C1 Exclusion: no row recommend returns has the lowercased title of the
\* row the query resolved to, also when several rows share that title.
Exclusion ==
    Found => \A k \in DOMAIN call.ret.rows :
                 Lower(call.ret.rows[k].title) # QueryTitle

ExclusionWitness ==
    /\ Found
    /\ call.ret.rows # <<>>
    /\ \E i \in Range(call.peers) :
           i # call.idx /\ Lower(data[i].title) = QueryTitle

\* C2 as stated: no returned row is of the franchise of the query title.
QueryFranchiseExcluded ==
    Found => \A k \in DOMAIN call.ret.rows :
                 ~IsSameFranchise(call.ret.rows[k].title, data[call.idx].title)

\* C2 amended: only rows with the query's lowercased title are removed on
\* account of the query.  A candidate that is same-franchise with no other
\* candidate is returned when top_n admits all candidates, whether or not
\* it is of the query's franchise (B and C for the query A with top_n = 2).
QueryFranchiseKept ==
    (Found /\ call.top_n >= 1 /\ Cardinality(Candidates) <= call.top_n) =>
        \A i \in Candidates :
            (\A j \in Candidates \ {i} :
                 ~IsSameFranchise(data[i].title, data[j].title))
            => \E k \in DOMAIN call.ret.rows :
                   /\ call.ret.rows[k].title = data[i].title
                   /\ call.ret.rows[k].type = data[i].type
                   /\ call.ret.rows[k].cluster = data[i].cluster

QueryFranchiseKeptWitness ==
    /\ Found
    /\ call.top_n = 2
    /\ Cardinality(Candidates) = 2
    /\ Len(call.ret.rows) = 2
    /\ \E k \in DOMAIN call.ret.rows :
           IsSameFranchise(call.ret.rows[k].title, data[call.idx].title)

\* C3 Cascade correctness: when no row other than the query row has the
\* desired type in the query's cluster and another cluster holds a row of
\* that type, the pool is the type-only pool and every returned row has the
\* desired type.
CascadeTier2 ==
    (Found /\ call.top_n >= 1) =>
        LET desired_type == DesiredType(call.idx, call.content_type)
            OfType == {i \in DOMAIN data : data[i].type = desired_type}
        IN  (/\ ~\E i \in OfType \ {call.idx} :
                    data[i].cluster = data[call.idx].cluster
             /\ \E i \in OfType : data[i].cluster # data[call.idx].cluster)
            => /\ call.tier = 2
               /\ Range(call.peers) = OfType
               /\ \A k \in DOMAIN call.ret.rows :
                      call.ret.rows[k].type = desired_type

\* C4 Never-empty: a resolved query with top_n >= 1 gets a non-empty result
\* whenever the catalog holds a row with another title.
NeverEmpty ==
    (/\ Found
     /\ call.top_n >= 1
     /\ \E i \in DOMAIN data : Lower(data[i].title) # QueryTitle)
    => call.ret.rows # <<>>

\* C5 as stated: at most top_n rows, and exactly top_n whenever the pool
\* after self-exclusion holds top_n titles pairwise not same-franchise.
BoundsPairwise ==
    (Found /\ call.top_n >= 1) =>
        /\ Len(call.ret.rows) <= call.top_n
        /\ (\E S \in SUBSET DOMAIN call.rows :
                /\ Cardinality(S) = call.top_n
                /\ \A p \in S : \A q \in S \ {p} :
                       ~IsSameFranchise(call.rows[p].title, call.rows[q].title))
           => Len(call.ret.rows) = call.top_n

\* C5 amended: at most top_n rows, and exactly top_n whenever at least top_n
\* rows of the pool after self-exclusion are each same-franchise with no
\* other row of that pool.
BoundsIsolated ==
    (Found /\ call.top_n >= 1) =>
        /\ Len(call.ret.rows) <= call.top_n
        /\ Cardinality(Isolated) >= call.top_n
           => Len(call.ret.rows) = call.top_n

BoundsIsolatedWitness ==
    /\ Found
    /\ call.top_n = 2
    /\ Cardinality(Isolated) >= 2
    /\ Len(call.rows) > 2
    /\ Len(call.ret.rows) = 2

\* C7 Title not found: recommend returns None exactly when the trimmed,
\* lowercased query equals no lowercased title and no title has ratio >= 0.6
\* to it; otherwise the query resolves to a row with that title when one
\* exists, else to a row whose title has the largest ratio.
TitleNotFound ==
    Done =>
        LET q      == Lower(Strip(call.query_title))
            titles == {Lower(data[i].title) : i \in DOMAIN data}
            close  == {t \in titles : ~RLess(Ratio(t, q), Cutoff)}
        IN  /\ call.ret.none <=> (q \notin titles /\ close = {})
            /\ ~call.ret.none =>
                  /\ call.idx \in DOMAIN data
                  /\ q \in titles => QueryTitle = q
                  /\ q \notin titles =>
                        /\ QueryTitle \in close
                        /\ \A t \in close : ~RLess(Ratio(QueryTitle, q), Ratio(t, q))

TitleNotFoundWitness ==
    /\ Done
    /\ call.ret.none
    /\ \E i \in DOMAIN data :
           RLess(RInt(0), Ratio(Lower(data[i].title), Lower(Strip(call.query_title))))

\* C8 Dedup idempotence: the deduplicator applied to its own output, with
\* the same limit, returns that output.
DedupIdempotent ==
    Found => \A limit \in TopNs :
                 Deduplicate(Deduplicate(call.rows, limit), limit)
                     = Deduplicate(call.rows, limit)

DedupIdempotentWitness ==
    /\ Found
    /\ Len(Deduplicate(call.rows, call.top_n)) >= 2
    /\ Len(DedupFilter(call.rows, Len(call.rows))) < Len(call.rows)

\* The ranked list of the call under other weights, default ordering
RankedUnder(weights) ==
    SortPeers(RemoveSelf(call.idx, ScorePeers(call.idx, call.peers, weights)), "none")

PositionIn(rows, idx) == CHOOSE p \in DOMAIN rows : rows[p].idx = idx

LargerSimOnly(w1, w2) ==
    /\ RLess(w1.sim, w2.sim)
    /\ w1.rating = w2.rating
    /\ w1.pop = w2.pop
    /\ w1.recency = w2.recency

\* C9 Score monotonicity: under the default ordering, a candidate ranked at
\* or above one of smaller similarity stays above it when only w_sim grows.
ScoreMonotone ==
    (Found /\ call.sort_mode = "none") =>
        \A w2 \in WeightSets :
            LargerSimOnly(call.weights, w2) =>
                \A p \in DOMAIN call.rows : \A q \in DOMAIN call.rows :
                    (p < q /\ RLess(call.rows[q].similarity, call.rows[p].similarity))
                    => PositionIn(RankedUnder(w2), call.rows[p].idx)
                         < PositionIn(RankedUnder(w2), call.rows[q].idx)

ScoreMonotoneWitness ==
    /\ Found
    /\ call.sort_mode = "none"
    /\ \E w2 \in WeightSets :
           /\ LargerSimOnly(call.weights, w2)
           /\ RankedUnder(w2) # RankedUnder(call.weights)
           /\ \E p \in DOMAIN call.rows : \E q \in DOMAIN call.rows :
                  p < q /\ RLess(call.rows[q].similarity, call.rows[p].similarity)

-----------------------------------------------------------------------------
(* Properties of concurrent calls *)

SameArguments(a, b) ==
    /\ a.query_title = b.query_title
    /\ a.content_type = b.content_type
    /\ a.top_n = b.top_n
    /\ a.sort_mode = b.sort_mode
    /\ a.weights = b.weights

RunAlone(c) ==
    RecommendRun(c.query_title, c.content_type, c.top_n, c.sort_mode, c.weights)

SerialResults ==
    \A t \in Callers : thread[t].pc = "done" => thread[t] = RunAlone(thread[t])

\* C10 Catalog immutability: no step of recommend changes the table, the
\* embeddings, the title map or the normalizers, and every call returns,
\* under every interleaving, what it returns when run alone.
CatalogImmutability ==
    /\ [][catalogVars' = catalogVars]_vars
    /\ []SerialResults

CatalogImmutabilityWitness ==
    \E t1 \in Callers : \E t2 \in Callers :
        /\ thread[t1].pc = "done"
        /\ ~thread[t1].ret.none
        /\ thread[t1].ret.rows # <<>>
        /\ thread[t2].pc = "sort"
        /\ thread[t2].query_title # thread[t1].query_title

-----------------------------------------------------------------------------
(* Properties of the /api/recommend handler *)

\* The handler has answered a request whose title resolved in the catalog
Resolved ==
    /\ request.pc = "done"
    /\ request.recs.pc = "done"
    /\ ~request.recs.ret.none

\* C11 Default desired type: a call without a content type, made directly
\* or through the handler by a request without a type, selects candidates
\* of the type of the row the title resolved to.
DefaultDesiredType ==
    /\ (Found /\ call.content_type = <<>>)
           => DesiredType(call.idx, call.content_type) = data[call.idx].type
    /\ (Resolved /\ Strip(request.type) = <<>>)
           => DesiredType(request.recs.idx, request.recs.content_type)
                  = data[request.recs.idx].type

\* C13 HTTP not-found surface: the handler answers 'not found in dataset'
\* when, and only when, recommend returned None for the title.
NotFoundSurface ==
    (request.pc = "done" /\ request.recs.pc = "done") =>
        (request.kind = "not_found" <=> request.recs.ret.none)

-----------------------------------------------------------------------------
(* Properties of concurrent calls of fetch_metadata *)

\* C12 Metadata-cache mutual exclusion: two calls in progress for the same
\* title and content type never both miss the cache, both perform the
\* lookup and both write the poster file of that title.
MetadataMutualExclusion ==
    \A w1 \in Callers : \A w2 \in Callers \ {w1} :
        (/\ worker[w1].pc # "idle"
         /\ worker[w2].pc # "idle"
         /\ worker[w1].title = worker[w2].title
         /\ worker[w1].content_type = worker[w2].content_type)
        => ~(/\ worker[w1].missed /\ worker[w2].missed
             /\ worker[w1].looked /\ worker[w2].looked
             /\ worker[w1].wrote /\ worker[w2].wrote)

-----------------------------------------------------------------------------
(* Properties of the engine as built *)

\* C14 Load-time row-count agreement: the engine is never ready, and no
\* call of recommend is ever served, with an embedding array or a cluster
\* label array whose length differs from the number of rows of the table.
\* (The labels are a column of the table, so a ready engine has one per row.)
RowCountAgreement ==
    (engine = "ready" \/ call.pc \in {"done", "raised"}) =>
        Len(embeddings) = Len(data)

-----------------------------------------------------------------------------
(* Properties of the verification script *)

\* C15: a call of the verification script, for a title of the catalog and a
\* category label ('movies', 'series', 'anime'), returns a non-empty table
\* whose rows all have the canonical type of the label, whenever the catalog
\* holds a row of that type under another title than the query's.
CategoryLabels ==
    (/\ Found
     /\ call.top_n = TestTopN
     /\ \E i \in DOMAIN data :
            /\ data[i].type = CanonicalType(call.content_type)
            /\ Lower(data[i].title) # QueryTitle) =>
        /\ call.ret.rows # <<>>
        /\ \A k \in DOMAIN call.ret.rows :
               call.ret.rows[k].type = CanonicalType(call.content_type)

-----------------------------------------------------------------------------
(* Properties of the candidate pool and of the scores *)

\* The rows of the desired type of the finished call
OfDesiredType ==
    {i \in DOMAIN data : data[i].type = DesiredType(call.idx, call.content_type)}

\* The rows of the desired type in the cluster of the query row
InClusterOfDesiredType ==
    {i \in OfDesiredType : data[i].cluster = data[call.idx].cluster}

\* C16: the candidate pool of a call is the first non-empty one of the rows
\* of the query's cluster and the desired type, the rows of the desired type,
\* and the whole catalog; when the catalog holds a row of the desired type
\* every returned row has that type, so a row of another type is returned
\* only when the catalog holds no row of the desired type.
TypePurity ==
    Found =>
        /\ Range(call.peers) =
               IF InClusterOfDesiredType # {} THEN InClusterOfDesiredType
               ELSE IF OfDesiredType # {} THEN OfDesiredType
               ELSE DOMAIN data
        /\ OfDesiredType # {} =>
               \A k \in DOMAIN call.ret.rows :
                   call.ret.rows[k].type =
                       DesiredType(call.idx, call.content_type)

\* A call whose cluster holds no row of the desired type returns rows from the
\* type-only pool, in a catalog that holds rows of another type too
TypePurityWitness ==
    /\ Found
    /\ InClusterOfDesiredType = {}
    /\ OfDesiredType # {}
    /\ OfDesiredType # DOMAIN data
    /\ call.ret.rows # <<>>

\* C17: with no sort mode, the ranked rows handed to the deduplication are in
\* descending final_score; of two rows of equal final_score the one of larger
\* similarity comes first, and of two rows equal in both the one of larger
\* rating comes first.  (Rows whose final_score is not a number are left out.)
DefaultOrdering ==
    (Found /\ call.sort_mode = "none") =>
        \A p, q \in DOMAIN call.rows :
            (/\ p < q
             /\ ~IsNaN(call.rows[p].final_score)
             /\ ~IsNaN(call.rows[q].final_score)) =>
                /\ ~RLess(call.rows[p].final_score, call.rows[q].final_score)
                /\ call.rows[p].final_score = call.rows[q].final_score =>
                       /\ ~RLess(call.rows[p].similarity, call.rows[q].similarity)
                       /\ call.rows[p].similarity = call.rows[q].similarity =>
                              call.rows[p].rating >= call.rows[q].rating

\* The rows the finished call returns, with all their columns
ReturnedRows == Deduplicate(call.rows, call.top_n)

\* The finished call's arguments without a sort mode
Unsorted ==
    RecommendRun(call.query_title, call.content_type, call.top_n, "none",
                 call.weights)

\* C18: under 'latest', 'oldest', 'popular' and 'top_rated' the returned rows
\* are in descending year, ascending year, descending popularity and
\* descending rating; each returned row has the similarity and final_score
\* of that row in the call without a sort mode; any other sort mode returns
\* what the call without a sort mode returns.
SortModeOrdering ==
    Found =>
        LET returned == ReturnedRows
            unsorted == Unsorted
        IN  /\ call.ret.rows = [k \in DOMAIN returned |-> ResultRow(returned[k])]
            /\ \A p, q \in DOMAIN returned :
                   p < q =>
                       /\ call.sort_mode = "latest" =>
                              returned[p].year >= returned[q].year
                       /\ call.sort_mode = "oldest" =>
                              returned[p].year <= returned[q].year
                       /\ call.sort_mode = "popular" =>
                              returned[p].popularity >= returned[q].popularity
                       /\ call.sort_mode = "top_rated" =>
                              returned[p].rating >= returned[q].rating
            /\ \A k \in DOMAIN returned :
                   \E j \in DOMAIN unsorted.rows :
                       /\ unsorted.rows[j].idx = returned[k].idx
                       /\ unsorted.rows[j].similarity = returned[k].similarity
                       /\ unsorted.rows[j].final_score = returned[k].final_score
            /\ call.sort_mode \notin KnownSortModes =>
                   /\ call.rows = unsorted.rows
                   /\ call.ret = unsorted.ret

\* A call under 'popular' returns rows of different popularity, in another
\* order than the call without a sort mode
SortModeOrderingWitness ==
    /\ Found
    /\ call.sort_mode = "popular"
    /\ Len(call.ret.rows) >= 2
    /\ ReturnedRows[1].popularity > ReturnedRows[2].popularity
    /\ call.ret # Unsorted.ret

\* The ratings of the rows of a sequence of row numbers
RatingsOf(rows) == [k \in DOMAIN rows |-> data[rows[k]].rating]

\* The rows of the finished call's pool with a known rating
RatedPeers == SelectIdx(call.peers, {i \in Range(call.peers) : data[i].rating > 0})

\* The largest rating of the catalog, at least 1
CatalogMaxRating == Max(SetMax({data[i].rating : i \in DOMAIN data}), 1)

\* C19: a candidate of rating > 0 has rating_norm = rating / the largest
\* rating of the catalog (at least 1); a candidate of rating <= 0 has the
\* normalized mean rating of the pool's rows of rating > 0, and the
\* normalized mean rating of the whole catalog when the pool has no such
\* row; rating_norm and final_score are numbers.
RatingSubstitution ==
    Found =>
        \A k \in DOMAIN call.rows :
            /\ call.rows[k].rating_norm =
                   IF call.rows[k].rating > 0
                   THEN Rat(call.rows[k].rating, CatalogMaxRating)
                   ELSE IF RatedPeers # <<>>
                   THEN Rat(SumSeq(RatingsOf(RatedPeers)),
                            Len(RatedPeers) * CatalogMaxRating)
                   ELSE Rat(SumSeq(RatingsOf([i \in DOMAIN data |-> i])),
                            Len(data) * CatalogMaxRating)
            /\ ~IsNaN(call.rows[k].rating_norm)
            /\ ~IsNaN(call.rows[k].final_score)

\* The years of the catalog that are known
KnownYears == {y \in {data[i].year : i \in DOMAIN data} : y > 0}

\* The recency of a year by the rule: 0 for an unknown year, 1/2 when the
\* known years of the catalog are one year, else the linear rescale between
\* the smallest and the largest known year
RecencyByRule(year) ==
    IF year <= 0 THEN RInt(0)
    ELSE IF SetMin(KnownYears) = SetMax(KnownYears) THEN Rat(1, 2)
    ELSE Rat(year - SetMin(KnownYears), SetMax(KnownYears) - SetMin(KnownYears))

\* C20: for every row of the catalog the recency score is 0 for a year <= 0,
\* 1/2 for a year > 0 when the smallest and the largest known year are equal,
\* and (year - min_year) / (max_year - min_year) otherwise; it is a number
\* between 0 and 1, also in a catalog whose years are all 0; the candidates
\* of a call carry that value as recency_norm.
RecencyNormalization ==
    /\ \A i \in DOMAIN data :
           /\ RecencyScore(data[i].year) = RecencyByRule(data[i].year)
           /\ ~IsNaN(RecencyScore(data[i].year))
           /\ ~RLess(RecencyScore(data[i].year), RInt(0))
           /\ ~RLess(RInt(1), RecencyScore(data[i].year))
    /\ Found =>
           \A k \in DOMAIN call.rows :
               call.rows[k].recency_norm = RecencyByRule(call.rows[k].year)

\* A call whose candidates include a row of unknown year, of recency 0, and a
\* row of the latest of several known years, of recency 1
RecencyNormalizationWitness ==
    /\ Found
    /\ \E k \in DOMAIN call.rows :
           call.rows[k].year = 0 /\ call.rows[k].recency_norm = RInt(0)
    /\ \E k \in DOMAIN call.rows :
           /\ call.rows[k].year > 0
           /\ call.rows[k].year > SetMin(KnownYears)
           /\ call.rows[k].recency_norm = RInt(1)

-----------------------------------------------------------------------------
(* Properties of the franchise deduplication *)

\* Two titles are duplicates by the rule as stated: one base is a substring
\* of the other, or the word sets of the bases have Jaccard similarity >= 0.6
DuplicateAsStated(a, b) ==
    \/ IsSubstring(FranchiseBase(a), FranchiseBase(b))
    \/ IsSubstring(FranchiseBase(b), FranchiseBase(a))
    \/ 10 * Cardinality(Words(FranchiseBase(a)) \cap Words(FranchiseBase(b)))
           >= 6 * Max(1, Cardinality(Words(FranchiseBase(a))
                                         \cup Words(FranchiseBase(b))))

\* The rule for two titles; with nonempty set, only titles of non-empty base
\* are duplicates
DuplicateBy(nonempty, a, b) ==
    /\ DuplicateAsStated(a, b)
    /\ nonempty => (FranchiseBase(a) # <<>> /\ FranchiseBase(b) # <<>>)

\* The returned rows are a subsequence of the ranked rows that begins with
\* the top-ranked row; a ranked row up to the last returned one is missing
\* exactly when it is a duplicate of a returned row ranked before it; no two
\* returned rows are duplicates of each other
KeepsFirstBy(nonempty) ==
    Found =>
        LET ranked   == call.rows
            returned == ReturnedRows
            at == [k \in DOMAIN returned |->
                      IF \E p \in DOMAIN ranked : ranked[p] = returned[k]
                      THEN CHOOSE p \in DOMAIN ranked : ranked[p] = returned[k]
                      ELSE 0]
        IN  /\ \A k \in DOMAIN returned : at[k] > 0
            /\ \A k, l \in DOMAIN returned : k < l => at[k] < at[l]
            /\ returned # <<>> => at[1] = 1
            /\ returned # <<>> =>
                   \A p \in 1..at[Len(returned)] :
                       (\A k \in DOMAIN returned : at[k] # p) <=>
                           \E k \in DOMAIN returned :
                               /\ at[k] < p
                               /\ DuplicateBy(nonempty, ranked[p].title,
                                              returned[k].title)
            /\ \A k, l \in DOMAIN returned :
                   k # l => ~DuplicateBy(nonempty, returned[k].title,
                                         returned[l].title)

\* C21 as stated: the deduplicated result is a subsequence of the ranked
\* candidates beginning with the top-ranked one; a candidate is dropped
\* exactly when its franchise base is a substring of, contains, or has word
\* Jaccard similarity >= 0.6 with the base of an earlier kept candidate; no
\* two returned rows are same-franchise.
DedupKeepsFirstAsStated == KeepsFirstBy(FALSE)

\* C21 amended: the same, where two candidates are same-franchise only when
\* both franchise bases are non-empty; a candidate whose title begins with a
\* delimiter has the empty base and is never dropped.
DedupKeepsFirst == KeepsFirstBy(TRUE)

\* A call that drops a duplicate of the top-ranked row and returns, after it,
\* a row of empty franchise base
DedupKeepsFirstWitness ==
    /\ Found
    /\ Len(ReturnedRows) >= 2
    /\ Len(call.rows) > Len(ReturnedRows)
    /\ \E p \in DOMAIN call.rows :
           /\ p > 1
           /\ DuplicateBy(TRUE, call.rows[p].title, call.rows[1].title)
    /\ \E k \in DOMAIN ReturnedRows :
           k > 1 /\ FranchiseBase(ReturnedRows[k].title) = <<>>

-----------------------------------------------------------------------------
(* Properties of the poster cache and of the metadata cache *)

\* A worker has written a poster and its _manage_cache_size pass is not over
PassPending == \E w \in Callers : worker[w].pc \in {"manage", "sort", "remove"}

\* The place of a poster file in the directory, 1 for the oldest
AgeRank(f) == CHOOSE i \in DOMAIN posters : posters[i] = f

\* Every file a step removes is older than every file the step leaves
OldestRemoved ==
    \A f \in Range(posters) \ Range(posters') :
        \A g \in Range(posters') \cap Range(posters) : AgeRank(f) < AgeRank(g)

\* C22: in every interleaving of concurrent fetch_metadata calls, once every
\* poster write has been followed by its _manage_cache_size pass the
\* directory holds at most MAX_CACHE_FILES files, and the files removed are
\* the oldest by modification time.
PosterCacheBound ==
    /\ [](~PassPending => Len(posters) <= MaxCacheFiles)
    /\ [][OldestRemoved]_vars

-----------------------------------------------------------------------------
(* Properties of the errors of recommend *)

\* C23: on a loaded catalog a call of recommend, whatever its query,
\* content type, top_n, sort mode and weights override (one that overrides
\* only some of the four weights included), ends by returning a ranked list
\* or by reporting that the title was not found; no exception leaves it.
ErrorPropagation ==
    call.pc \in {"done", "raised"} =>
        /\ call.pc = "done"
        /\ call.ret.none \/ Len(call.ret.rows) <= Len(data)

-----------------------------------------------------------------------------
(* Properties of the favorites *)

\* No two documents of the collection have the same user_id and movie title
OnePerPair ==
    \A i, j \in DOMAIN favorites :
        i # j => ~(/\ favorites[i].user_id = favorites[j].user_id
                   /\ favorites[i].movie_id = favorites[j].movie_id)

\* The request a step handles asks for a pair that is in the collection
PairPresent == Matching(favorites, reply'.user_id, reply'.title) # {}

\* What a handled request answers and leaves: 400 for a missing user_id or
\* title, 200 'Already in favorites' for adding a present pair, 404 for
\* removing an absent pair, the collection unchanged in each case
FavoritesStep ==
    <<favorites, reply>>' # <<favorites, reply>> =>
        /\ (reply'.user_id = <<>> \/ reply'.title = <<>>) =>
               /\ reply'.status = 400
               /\ favorites' = favorites
        /\ (/\ reply'.op = "add"
            /\ reply'.user_id # <<>>
            /\ reply'.title # <<>>
            /\ PairPresent) =>
               /\ reply'.status = 200
               /\ reply'.message = "Already in favorites"
               /\ favorites' = favorites
        /\ (reply'.op = "remove" /\ reply'.title # <<>> /\ ~PairPresent) =>
               /\ reply'.status = 404
               /\ favorites' = favorites

\* C24: the favorites are a set per user: the collection never holds two
\* documents of one (user_id, movie title); adding a present pair answers
\* 200 'Already in favorites', removing an absent pair answers 404, a
\* request without user_id or without the movie title answers 400, and each
\* of them leaves the collection unchanged.
FavoritesSet == []OnePerPair /\ [][FavoritesStep]_vars

\* Every record of the metadata cache is there, unchanged, after the step
RecordsKept ==
    \A e \in metadata_cache :
        /\ InCache(metadata_cache', e.title, e.content_type)
        /\ CacheGet(metadata_cache', e.title, e.content_type) = e.meta

\* C25: in every interleaving of concurrent calls, a record stored in the
\* metadata cache for a key (title, content type), the 'fallback' record
\* included, never changes, and a call that finds the key in the cache
\* returns without a request to an external service.
CacheStability ==
    /\ [][RecordsKept]_vars
    /\ [](\A w \in Callers :
              (worker[w].pc = "done" /\ ~worker[w].missed) =>
                  ~worker[w].looked /\ ~worker[w].wrote)


-----------------------------------------------------------------------------
(* Bounded lookup of fetch_metadata *)

\* The sources a returned record names
RecordSources == {"tmdb", "jikan", "tmdb_multi", "fallback"}

\* The call of w is between its cache miss and its return
LookingUp(w) == worker[w].pc \in {"tmdb", "jikan", "multi", "fallback"}

\* The requests of the call of w stay in their bounds: at most
\* max_tmdb_attempts TMDB searches, each but the first after a request error,
\* at most one Jikan request and only for anime, at most one multi-search
RequestsBounded(w) ==
    /\ worker[w].tmdb_requests <= MaxTmdbAttempts
    /\ worker[w].tmdb_requests >= 1 => worker[w].errors >= worker[w].tmdb_requests - 1
    /\ worker[w].jikan_requests <= 1
    /\ worker[w].jikan_requests = 1 => worker[w].content_type = ANIME
    /\ worker[w].multi_requests <= 1

\* The call of w ends with a record of one of the four sources, the fallback
\* record when every request it issued failed
ReturnsRecord(w) ==
    /\ worker[w].pc # "raised"
    /\ worker[w].pc = "done" =>
          /\ worker[w].meta.source \in RecordSources
          /\ (worker[w].missed /\ worker[w].errors = worker[w].tmdb_requests
                  + worker[w].jikan_requests + worker[w].multi_requests)
                => worker[w].meta.source = "fallback"

\* C26: a fetch_metadata call that misses the cache issues at most
\* max_tmdb_attempts TMDB search requests (a further one only after a request
\* error), at most one Jikan request (anime only) and at most one TMDB
\* multi-search request, and always ends by returning a record whose source is
\* tmdb, jikan, tmdb_multi or fallback, the fallback record when every
\* request failed
BoundedLookup ==
    /\ [](\A w \in LookupWorkers : RequestsBounded(w) /\ ReturnsRecord(w))
    /\ \A w \in LookupWorkers : LookingUp(w) ~> (worker[w].pc = "done")

====
